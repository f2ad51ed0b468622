------------------------- MODULE SimEngineRefinement -------------------------
(***************************************************************************)
(* The engine implements the meaning of the design: looked at between its  *)
(* steps, SimEngine takes the atomic steps of DiscreteEvent.  The history  *)
(* variable past remembers the last state the engine was in between two    *)
(* steps; it changes no behaviour.                                         *)
(***************************************************************************)
EXTENDS SimEngine

VARIABLE past

Current == [step |-> step, time |-> time, sig |-> sig, events |-> events,
            state |-> state, pc |-> pc, values |-> values]

HistoryInit == Init /\ past = Current

HistoryNext == Next /\ past' = IF phase' \in {"idle", "stopped"} THEN Current' ELSE past

(* The engine runs on its own: its thread, or in parallel mode each of the *)
(* pool's, keeps executing as long as there is work.                       *)
HistorySpec == HistoryInit /\ [][HistoryNext]_<<vars, past>>
                           /\ WF_<<vars, past>>(HistoryNext)

Meaning == INSTANCE DiscreteEvent WITH
  started <- past.step > 0,
  now     <- past.time,
  sig     <- past.sig,
  agenda  <- past.events,
  procs   <- [i \in Insts |-> [wait   |-> past.state[i],
                               at     |-> past.pc[i].blk,
                               values |-> past.values[i]]]

(* Every step of the engine, with whatever order its threads and its hash  *)
(* maps choose, is the one step the design has at that instant: all due    *)
(* drives take effect, exactly the instances whose wait is over run, on    *)
(* the signals of that instant, and the last drive of each slot is kept.   *)
ImplementsMeaning == Meaning!Spec
=============================================================================
