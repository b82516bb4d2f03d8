----------------------------- MODULE MCPlugins -----------------------------
(* MPD: three songs, a picture of two chunks in the file, one in the         *)
(* directory and no artist, none.                                            *)
EXTENDS Plugins

CONSTANTS s1, s2, s3

MCSongs == {s1, s2, s3}
MCArtist == [x \in MCSongs |-> CASE x = s1 -> "x" [] x = s2 -> Nil [] x = s3 -> "y"]
MCEmbedded == [x \in MCSongs |-> IF x = s1 THEN 2 ELSE 0]
MCFolder == [x \in MCSongs |-> IF x = s2 THEN 1 ELSE 0]

\* NetworkManager: a network of two access points, and one of one
MCNetOf == [a \in {"a1", "a2", "b1"} |-> IF a = "b1" THEN "b" ELSE "a"]
=============================================================================
