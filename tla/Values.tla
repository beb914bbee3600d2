------------------------------- MODULE Values -------------------------------
(***************************************************************************)
(* The parts of the library that hold or hand out values outside the       *)
(* mapping engine: spooled bytes, the calls that read one value, the       *)
(* streams of items and objects, the multipart parser, and the allocator.  *)
(* They share no state, and a behaviour works with one of them.            *)
(***************************************************************************)
EXTENDS Spooled, Reading, Streams, Multipart, Allocator

VARIABLE part

valuesVars == <<part, vars, readingVars, streamVars, multipartVars, memoryVars>>

Parts == {"spooled", "reading", "streams", "multipart", "memory"}

ValuesInit ==
  /\ part \in Parts
  /\ Init /\ ReadingInit /\ StreamsInit /\ MultipartInit /\ MemoryInit

ValuesNext ==
  \/ /\ part = "spooled" /\ Next
     /\ UNCHANGED <<part, readingVars, streamVars, multipartVars, memoryVars>>
  \/ /\ part = "reading" /\ ReadingNext
     /\ UNCHANGED <<part, vars, streamVars, multipartVars, memoryVars>>
  \/ /\ part = "streams" /\ StreamsNext
     /\ UNCHANGED <<part, vars, readingVars, multipartVars, memoryVars>>
  \/ /\ part = "multipart" /\ MultipartNext
     /\ UNCHANGED <<part, vars, readingVars, streamVars, memoryVars>>
  \/ /\ part = "memory" /\ MemoryNext
     /\ UNCHANGED <<part, vars, readingVars, streamVars, multipartVars>>

ValuesSpec == ValuesInit /\ [][ValuesNext]_valuesVars

=============================================================================
