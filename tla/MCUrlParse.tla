----------------------------- MODULE MCUrlParse -----------------------------
(* The scheme with all continuations up to a length, and other schemes.    *)
EXTENDS UrlParse

CONSTANT MaxTail   \* the longest continuation

MCHostChars == {"h", "1", "9"}
MCChars == MCHostChars \cup Range(Scheme) \cup {"!"}
MCDigit == "1" :> 1 @@ "9" :> 9
MCTails == SeqOf(MCHostChars \cup {":", "/", "!"}, MaxTail)
MCTexts ==
  {Scheme \o t : t \in MCTails}
    \cup {SubSeq(Scheme, 1, n) \o t : n \in 0..8, t \in SeqOf({"h", "/"}, 2)}
=============================================================================
