------------------------------ MODULE BytePipe ------------------------------
(***************************************************************************)
(* What a pull-style generator promises its consumer: the bytes produced   *)
(* arrive in order, each one once, in reads of any size, and the end is    *)
(* announced when the producer is done and every byte was handed over,     *)
(* never before.  A consumer may start over where the producer can.        *)
(***************************************************************************)
EXTENDS Sequences, SequencesExt

VARIABLES
  in,       \* the bytes produced
  out,      \* the bytes delivered
  closed,   \* the producer is done
  ended,    \* the consumer was told so
  replays   \* the producer can be made to produce everything again

pipe == <<in, out, closed, ended, replays>>

PipeInit == out = <<>> /\ ended = FALSE /\ closed \in BOOLEAN /\ IsPrefix(out, in)

Produce ==
  /\ ~closed
  /\ IsPrefix(in, in')
  /\ UNCHANGED <<out, closed, ended, replays>>

ClosePipe ==
  /\ ~closed
  /\ closed' = TRUE
  /\ UNCHANGED <<in, out, ended, replays>>

\* A read: some more of what was produced; it says so if that was all.
Deliver ==
  /\ IsPrefix(out, out') /\ IsPrefix(out', in)
  /\ ended' => closed /\ out' = in
  /\ ended => ended'
  /\ UNCHANGED <<in, closed, replays>>

\* A consumer that has to send everything again starts over, wherever it
\* was; what it then gets is the same bytes from the first one on.
StartOver ==
  /\ replays
  /\ out' = <<>> /\ ended' = FALSE
  /\ UNCHANGED <<in, closed, replays>>

PipeSpec ==
  /\ PipeInit /\ replays \in BOOLEAN
  /\ [][Produce \/ ClosePipe \/ Deliver \/ StartOver]_pipe

=============================================================================
