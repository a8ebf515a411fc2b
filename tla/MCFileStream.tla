---------------------------- MODULE MCFileStream ----------------------------
(* Instances of FileStream for TLC. *)
EXTENDS FileStream, TLC

CONSTANTS o1, o2, r1, w1, c1, v1, v2

MCWorker == {v1, v2}

\* Two opens, a write, a read, a close.
MCOp == {o1, o2, r1, w1, c1}
MCKind == o1 :> "open" @@ o2 :> "open" @@ r1 :> "read" @@ w1 :> "write" @@ c1 :> "close"
=============================================================================
