---------------------------- MODULE MCFileLedger ----------------------------
(* FileLedger on a small instance, for TLC. *)
EXTENDS FileLedger

\* The limits of every link of the instance.
CONSTANTS FileLimitEach, CountEach, TotalEach

MCFileLimit  == [l \in Links |-> FileLimitEach]
MCCountLimit == [l \in Links |-> CountEach]
MCTotalLimit == [l \in Links |-> TotalEach]
=============================================================================
