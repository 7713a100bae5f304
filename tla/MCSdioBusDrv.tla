----------------------------- MODULE MCSdioBusDrv -----------------------------
(* An instance of SdioBusDrv with blocks of 4 bytes and a threshold of 3. *)
EXTENDS SdioBusDrv, TLC

\* "a" is accumulated; the others have lengths that give every shape of parts:
\* one short part, one long remainder, blocks only, remainder and blocks.
MCLenOf == "elp" :> 1 @@ "a" :> 3 @@ "t2" :> 2 @@ "t3" :> 3 @@ "t4" :> 4 @@ "t5" :> 5 @@ "t7" :> 7
====
