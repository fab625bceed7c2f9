------------------------ MODULE MCMeasurementReaders ------------------------
(***************************************************************************)
(* Every list of up to four samples of three values, with ties and in every *)
(* order, one that is not valid, and falling lists of the lengths at which  *)
(* the index of the p90 takes a step (9 to 11, 20 and 21).                  *)
(***************************************************************************)
EXTENDS MeasurementReaders, TLC

MCLevels == -1 .. 2

Falling(n, k) == [i \in 1 .. n |-> IF i <= k THEN 2 ELSE 1]

MCObservations ==
    UNION {[1 .. n -> 0 .. 2] : n \in 1 .. 4}
        \union {Falling(n, k) : n \in {9, 10, 11, 20, 21}, k \in 0 .. 3}
        \union {<<>>, <<2, -1>>}

MCEdited(d) ==
    {[d EXCEPT !.source_kind = "functional_emulator"],
     [d EXCEPT !.unit = "cycles"],
     [d EXCEPT !.metric = "latency_cycles", !.unit = "cycles"],
     [d EXCEPT !.metric = "latency_ms"],
     [d EXCEPT !.collected_at = "without timezone"],
     [d EXCEPT !.warmup_runs = -1],
     [d EXCEPT !.environment.threads = 0],
     [d EXCEPT !.summary.p90 = @ + 1],
     [d EXCEPT !.summary = ("p95" :> @.max) @@ @],
     [d EXCEPT !.summary = None],
     [d EXCEPT !.samples = <<>>]}
=============================================================================
