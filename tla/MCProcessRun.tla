---------------------------- MODULE MCProcessRun ----------------------------
(* Small instances of ProcessRun. *)
EXTENDS ProcessRun

OneStream == <<"stdout">>
TwoStreams == <<"stdout", "stderr">>

\* With a limit of two and reads of two, three bytes are cut across the head's
\* limit and trim the tail.
ThreeAndOne == [s \in {"stdout", "stderr"} |-> IF s = "stdout" THEN 3 ELSE 1]
OneByte == [s \in {"stdout"} |-> 1]

=============================================================================
