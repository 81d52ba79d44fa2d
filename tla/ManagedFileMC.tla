----------------------------- MODULE ManagedFileMC -----------------------------
(* Two unrelated markers and one that contains the first; a content that ends  *)
(* in a newline, with a carriage return in it, and one that does not and       *)
(* mentions the second marker.                                                 *)
EXTENDS ManagedFile

MCMarkers == {"# a", "# b", "# a2"}
MCExtensions == [m \in MCMarkers |-> IF m = "# a" THEN {"# a", "# a2"} ELSE {m}]
MCTextOf == [x |-> <<Mention("# b")>>, y |-> <<Crlf, Text("y")>>]
=============================================================================
