------------------------------ MODULE KeyFile ------------------------------
(***************************************************************************)
(* How a node gets its seed phrase at start-up: load_or_generate_key of    *)
(* src/src/crypto.rs.  The first start makes a phrase, shows it, asks for  *)
(* a password and writes the encrypted file; later starts ask for the      *)
(* password up to three times.  The process may stop at any point.         *)
(*                                                                         *)
(* Encryption carries no authentication: decrypting with another password  *)
(* usually fails the padding check, but may pass it and yield some other   *)
(* bytes, which are then not the phrase.                                   *)
(***************************************************************************)
EXTENDS Integers

CONSTANTS
  Phrases,     \* seed phrases, drawn at random: none is drawn twice
  MaxAttempts  \* 3

ASSUME KeyAssumption ==
  /\ MaxAttempts \in Nat \ {0}
  /\ "none" \notin Phrases /\ "partial" \notin Phrases

VARIABLES
  file,      \* key.kum4: "none", "partial" or the phrase it holds
  node,      \* locals of the start-up
  phrase,    \* the phrase in memory, if any
  typed,     \* passwords entered in this start: how many
  drawn,     \* phrases generated so far
  used       \* history: phrases some node has served exchanges with

startVars == <<file, node, phrase, typed, drawn, used>>

NodePcs == {"stopped", "show", "write", "ask", "running", "failed"}

StartTypeOK ==
  /\ file \in {"none", "partial"} \cup Phrases
  /\ node \in NodePcs
  /\ phrase \in {{}} \cup {{p} : p \in Phrases}
  /\ typed \in 0..MaxAttempts
  /\ drawn \subseteq Phrases
  /\ used \subseteq Phrases

StartInit ==
  /\ file = "none"
  /\ node = "stopped"
  /\ phrase = {}
  /\ typed = 0
  /\ drawn = {}
  /\ used = {}

-----------------------------------------------------------------------------
\* The file exists, whole or not.
StartLoads ==
  /\ node = "stopped"
  /\ file # "none"
  /\ node' = "ask"
  /\ typed' = 0
  /\ UNCHANGED <<file, phrase, drawn, used>>

\* Faulty: nobody looks whether there is a file.
StartRegenerates(p) ==
  /\ node = "stopped"
  /\ p \notin drawn
  /\ drawn' = drawn \cup {p}
  /\ phrase' = {p}
  /\ node' = "show"
  /\ UNCHANGED <<file, typed, used>>

\* It does not: a phrase is drawn and shown, then the password is set.
StartGenerates(p) ==
  /\ node = "stopped"
  /\ file = "none"
  /\ p \notin drawn
  /\ drawn' = drawn \cup {p}
  /\ phrase' = {p}
  /\ node' = "show"
  /\ UNCHANGED <<file, typed, used>>

\* Faulty: the node runs before the file is written.
SetPasswordRuns ==
  /\ node = "show"
  /\ node' = "running"
  /\ used' = used \cup phrase
  /\ UNCHANGED <<file, phrase, typed, drawn>>

\* Both entries of the new password agree, and fs::write creates the file.
SetPassword ==
  /\ node = "show"
  /\ file' = "partial"
  /\ node' = "write"
  /\ UNCHANGED <<phrase, typed, drawn, used>>

\* fs::write has written everything; the node runs once Enter is pressed.
FinishWrite ==
  /\ node = "write"
  /\ \E p \in phrase : file' = p
  /\ node' = "running"
  /\ used' = used \cup phrase
  /\ UNCHANGED <<phrase, typed, drawn>>

\* Faulty: there is no end to the attempts.
DecryptFailsAgain ==
  /\ node = "ask"
  /\ typed' = typed + 1
  /\ UNCHANGED <<file, node, phrase, drawn, used>>

\* The right password opens a whole file.
DecryptOpens ==
  /\ node = "ask"
  /\ file \in Phrases
  /\ typed' = typed + 1
  /\ phrase' = {file}
  /\ node' = "running"
  /\ used' = used \cup {file}
  /\ UNCHANGED <<file, drawn>>

\* Any password fails on a partial file, a wrong one usually on a whole one.
\* The padding check of either key finds it, and the node asks again.
DecryptFails ==
  /\ node = "ask"
  /\ typed' = typed + 1
  /\ node' = IF typed' < MaxAttempts THEN "ask" ELSE "failed"
  /\ UNCHANGED <<file, phrase, drawn, used>>

\* The padding is right by chance: the bytes are not text, or are no mnemonic,
\* and the start-up ends with an error at once.
DecryptGarbles ==
  /\ node = "ask"
  /\ typed' = typed + 1
  /\ node' = "failed"
  /\ UNCHANGED <<file, phrase, drawn, used>>

\* The process stops, at any point.
Stop ==
  /\ node # "stopped"
  /\ node' = "stopped"
  /\ phrase' = {}
  /\ typed' = 0
  /\ UNCHANGED <<file, drawn, used>>

\* External: told that no password fits, the operator deletes a file that
\* holds no wallet.
DeleteFile ==
  /\ node = "failed"
  /\ file = "partial"
  /\ file' = "none"
  /\ UNCHANGED <<node, phrase, typed, drawn, used>>

StartUp ==
  \/ StartLoads
  \/ \E p \in Phrases : StartGenerates(p)
  \/ SetPassword \/ FinishWrite
  \/ DecryptOpens \/ DecryptFails \/ DecryptGarbles
  \/ DeleteFile

StartNext == StartUp \/ Stop

StartSpec == StartInit /\ [][StartNext]_startVars

-----------------------------------------------------------------------------
\* A phrase some node has served exchanges with is the one in the file, so no
\* restart, and no stop during a write, loses the keys of a deposit address or
\* replaces the wallet (load_or_generate_key writes the file before it returns).
UsedPhraseIsKept == used \subseteq {file}
=============================================================================
