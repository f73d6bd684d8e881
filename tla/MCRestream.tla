----------------------------- MODULE MCRestream -----------------------------
(* Instances of Restream for TLC: two processes, b's input referencing a's *)
(* output, two callers of AddProcess, two playout ports and a cap of one.   *)
EXTENDS Restream

\* a: writes to disk, one playout input, Autostart, cleanup rules.
CfgA == [id |-> "a", ref |-> NoRef, disk |-> TRUE, playout |-> 1,
         autostart |-> TRUE, cleanup |-> TRUE]

\* b reading a's output: writes to disk, one playout input, Autostart.
CfgB == [id |-> "b", ref |-> "a", disk |-> TRUE, playout |-> 1,
         autostart |-> TRUE, cleanup |-> FALSE]

\* b standing alone: two playout inputs, no disk output, not started.
CfgB2 == [id |-> "b", ref |-> NoRef, disk |-> FALSE, playout |-> 2,
          autostart |-> FALSE, cleanup |-> TRUE]

MCConfigs == {CfgA, CfgB, CfgB2}
=============================================================================
