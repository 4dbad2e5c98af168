------------------------------ MODULE Emulator ------------------------------
(***************************************************************************)
(* An emulator as the rest of the program sees it (source/emulator.hpp and *)
(* the adapter emulators/quickerNES/quickerNES.hpp).                       *)
(*                                                                         *)
(* The emulation core is external: a state of it, what an input leads to   *)
(* and the values in its memory are constants.  Apart from it are kept a   *)
(* byte of the memory that the rules of a game write to, and one block of  *)
(* the state that "Disabled State Properties" may leave out of saved       *)
(* states: here it counts the inputs, modulo two.  A picture is the state  *)
(* of the core that it shows.                                              *)
(***************************************************************************)
EXTENDS Integers

CONSTANTS Cores,         \* states of the core
          AdvanceCore,   \* for each of them, what each input leads to
          Memory,        \* for each of them, the values of the properties of its game
          PoweredOnCore, \* before a state file is loaded
          NoPicture      \* nothing has been drawn yet

Byte == 256

Emulators == [core : Cores, written : 0 .. Byte - 1, block : {0, 1},
              enabled : BOOLEAN,   \* the block is part of saved states
              rendering : BOOLEAN, \* the core draws what it reaches
              frame : Cores \union {NoPicture},   \* what it drew last
              curBlit : Cores \union {NoPicture}] \* _curBlit, the state of the renderer

PoweredOn == [core |-> PoweredOnCore, written |-> 0, block |-> 1, enabled |-> TRUE,
              rendering |-> FALSE, frame |-> NoPicture, curBlit |-> NoPicture]

\* Rendering takes no part, and the block does only while it is enabled; what a state
\* does not hold is left as it is when the state is loaded.
SerializeEmulator(e) ==
    IF e.enabled THEN [core |-> e.core, written |-> e.written, block |-> e.block]
                 ELSE [core |-> e.core, written |-> e.written]
Restored(r, stored) == [f \in DOMAIN r |-> IF f \in DOMAIN stored THEN stored[f] ELSE r[f]]
DeserializeEmulator(e, stored) == Restored(e, stored)

\* Emulator::initialize: the state file was saved with all blocks.
InitializeEmulator(stateFile, disabled) ==
    [DeserializeEmulator(PoweredOn, [core |-> stateFile, written |-> 0, block |-> 0])
        EXCEPT !.enabled = ~disabled]

AdvanceEmulator(e, input) ==
    [e EXCEPT !.core = AdvanceCore[@][input],
              !.block = 1 - @,
              !.frame = IF e.rendering THEN AdvanceCore[e.core][input] ELSE @]

\* What the player asks for before it saves the initial state.
EnableRendering(e) == [e EXCEPT !.rendering = TRUE]
EnableStateProperties(e) == [e EXCEPT !.enabled = TRUE]

\* The renderer takes over the last frame of the core; its state is saved apart.
UpdateRendererState(e) == [e EXCEPT !.curBlit = e.frame]
DeserializeRendererState(e, picture) == [e EXCEPT !.curBlit = picture]
=============================================================================
