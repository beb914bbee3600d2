---------------------------- MODULE MCMultipart ----------------------------
(***************************************************************************)
(* Instance of Multipart: boundary "b", so that the delimiters are --b and *)
(* --b--, and headers with and without a length.                           *)
(***************************************************************************)
EXTENDS Multipart

MCBoundary == <<"b">>
MCHeaders == {"plain", "empty", "two", "invalid"}
MCContentLength ==
  [h \in MCHeaders |-> CASE h = "plain" -> NoLength [] h = "empty" -> 0
                         [] h = "two" -> 2 [] h = "invalid" -> BadLength]

=============================================================================
