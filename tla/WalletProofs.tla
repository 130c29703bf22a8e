---------------------------- MODULE WalletProofs ----------------------------
(***************************************************************************)
(* The key file keeps the phrase of every node that ran and of every       *)
(* deposit address given out.  The start-up and the allocation are each a  *)
(* view of the wallet: what is proved of one alone holds of the two.       *)
(***************************************************************************)
EXTENDS Wallet, AllocationProofs

\* The file when the start-up has got so far: a phrase is only made when there
\* is no file, it is written before the node runs, and an attempt is left as
\* long as a password is asked for.
StartInv ==
  /\ node = "show" => file = "none"
  /\ node = "write" => file = "partial"
  /\ node = "ask" => file # "none" /\ typed < MaxAttempts

\* Inductive.
KeyFileInv == StartTypeOK /\ StartInv /\ UsedPhraseIsKept

\* A file that holds no phrase was never used.
LEMMA NoPhraseUnused ==
  ASSUME KeyFileInv, file \in {"none", "partial"} PROVE used = {}
BY KeyAssumption DEF KeyFileInv, StartTypeOK, UsedPhraseIsKept

LEMMA InitKeyFile == StartInit => KeyFileInv
BY KeyAssumption DEF StartInit, KeyFileInv, StartTypeOK, NodePcs, StartInv, UsedPhraseIsKept

LEMMA KeyFileStep ==
  ASSUME KeyFileInv, [StartNext]_startVars PROVE KeyFileInv'
<1> USE DEF KeyFileInv, StartTypeOK, NodePcs, StartInv, UsedPhraseIsKept
<1>1. CASE StartLoads
      BY <1>1, KeyAssumption DEF StartLoads
<1>2. ASSUME NEW p \in Phrases, StartGenerates(p) PROVE KeyFileInv'
      BY <1>2 DEF StartGenerates
<1>3. CASE SetPassword
  <2>1. used = {}
        BY <1>3, NoPhraseUnused DEF SetPassword
  <2>2. QED
        BY <1>3, <2>1 DEF SetPassword
<1>4. CASE FinishWrite
  <2>1. used = {}
        BY <1>4, NoPhraseUnused DEF FinishWrite
  <2>2. PICK p \in Phrases : phrase = {p} /\ file' = p /\ used' = {p}
        BY <1>4, <2>1 DEF FinishWrite
  <2>3. QED
        BY <1>4, <2>2 DEF FinishWrite
<1>5. CASE DecryptOpens
      BY <1>5, KeyAssumption DEF DecryptOpens
<1>6. CASE DecryptFails
      BY <1>6, KeyAssumption DEF DecryptFails
<1>7. CASE DecryptGarbles
      BY <1>7, KeyAssumption DEF DecryptGarbles
<1>8. CASE Stop
      BY <1>8, KeyAssumption DEF Stop
<1>9. CASE DeleteFile
  <2>1. used = {}
        BY <1>9, NoPhraseUnused DEF DeleteFile
  <2>2. QED
        BY <1>9, <2>1 DEF DeleteFile
<1>10. CASE UNCHANGED startVars
      BY <1>10 DEF startVars
<1>11. QED
      BY <1>1, <1>2, <1>3, <1>4, <1>5, <1>6, <1>7, <1>8, <1>9, <1>10 DEF StartNext, StartUp

LEMMA KeyFileCorrect == StartSpec => []KeyFileInv
BY InitKeyFile, KeyFileStep, PTL DEF StartSpec

\* The types of the start-up hold; no more passwords are tried than allowed.
LEMMA StartTyped == StartSpec => []StartTypeOK
<1>1. KeyFileInv => StartTypeOK
      BY DEF KeyFileInv
<1>2. QED
      BY <1>1, KeyFileCorrect, PTL

\* Wherever load_or_generate_key is stopped and whatever passwords are entered,
\* the wallet of a deposit address is never lost or replaced.
LEMMA UsedPhraseStaysAlone == StartSpec => []UsedPhraseIsKept
<1>1. KeyFileInv => UsedPhraseIsKept
      BY DEF KeyFileInv
<1>2. QED
      BY <1>1, KeyFileCorrect, PTL

-----------------------------------------------------------------------------
(* The two views.                                                           *)

LEMMA ImplementsStart == Spec => StartSpec
<1>1. Init => StartInit
      BY DEF Init
<1>2. [Next]_vars => [StartNext]_startVars
      BY DEF Next, StartStep, ServeStep, StopStep, StartNext, vars
<1>3. QED
      BY <1>1, <1>2, PTL DEF Spec, StartSpec

LEMMA ImplementsAllocation == Spec => AllocationSpec
<1>1. Init => AllocationInit
      BY DEF Init
<1>2. [Next]_vars => [AllocationNext]_allocationVars
      BY DEF Next, StartStep, ServeStep, StopStep, AllocationNext, vars
<1>3. QED
      BY <1>1, <1>2, PTL DEF Spec, AllocationSpec

\* Wherever load_or_generate_key is stopped and whatever passwords are entered,
\* the wallet of a node that has run is never lost or replaced.
THEOREM UsedPhraseStays == Spec => []UsedPhraseIsKept
BY ImplementsStart, UsedPhraseStaysAlone, PTL

\* No address is given out twice unless a request read an index that another
\* had read and not yet advanced, also when the node starts and stops in between.
THEOREM RacesOnly == Spec => []OnlyRacesRepeatAddresses
BY ImplementsAllocation, RacesOnlyAlone, PTL

\* The addresses given out are among the first ones of the seed, one for each
\* request at most.
THEOREM AddressesBounded == Spec => []AddressesAreBounded
BY ImplementsAllocation, AddressesBoundedAlone, PTL

-----------------------------------------------------------------------------
(* The two together.                                                        *)

\* Inductive: a node that runs has counted its phrase as used, and an address
\* is derived from a phrase that is.
WalletInv ==
  /\ TypeOK
  /\ node = "running" => phrase # {} /\ phrase \subseteq used
  /\ \A r \in Requests : request[r].pc # "new" => \E p \in used : origin[r] = {p}

LEMMA InitWallet == Init => WalletInv
<1> SUFFICES ASSUME Init PROVE WalletInv
    OBVIOUS
<1>1. StartTypeOK /\ AllocationTypeOK
      BY InitKeyFile, InitAllocation DEF Init, KeyFileInv, AllocationInv
<1>2. QED
      BY <1>1 DEF Init, StartInit, AllocationInit, TypeOK, WalletInv

LEMMA WalletStep ==
  ASSUME WalletInv, StartTypeOK', AllocationTypeOK', [Next]_vars PROVE WalletInv'
<1>1. CASE StartStep
  <2>1. used \subseteq used'
        BY <1>1 DEF StartStep, StartUp, StartLoads, StartGenerates, SetPassword, FinishWrite,
                    DecryptOpens, DecryptFails, DecryptGarbles, DeleteFile
  <2>2. node' = "running" => phrase' # {} /\ phrase' \subseteq used'
        BY <1>1 DEF WalletInv, TypeOK, StartTypeOK, NodePcs, StartStep, StartUp, StartLoads,
                    StartGenerates, SetPassword, FinishWrite, DecryptOpens, DecryptFails,
                    DecryptGarbles, DeleteFile
  <2>3. UNCHANGED <<request, origin>>
        BY <1>1 DEF StartStep, allocationVars
  <2>4. QED
        BY <2>1, <2>2, <2>3 DEF WalletInv, TypeOK
<1>2. ASSUME NEW r \in Requests, ServeStep(r) PROVE WalletInv'
  <2>1. UNCHANGED <<node, phrase, used>> /\ node = "running"
        BY <1>2 DEF ServeStep, startVars
  <2>2. PICK p \in used : phrase = {p}
        BY <2>1 DEF WalletInv, TypeOK, StartTypeOK
  <2>3. \A s \in Requests \ {r} : request'[s] = request[s] /\ origin'[s] = origin[s]
        BY <1>2 DEF ServeStep, Serve, Derive, AdvanceRead, AdvanceWrite, Store, WalletInv, TypeOK,
                    AllocationTypeOK
  <2>4. \E q \in used : origin'[r] = {q}
    <3>1. CASE request[r].pc = "new"
          BY <1>2, <2>2, <3>1 DEF ServeStep, WalletInv, TypeOK
    <3>2. CASE request[r].pc # "new"
          BY <1>2, <3>2 DEF ServeStep, WalletInv
    <3>3. QED
          BY <3>1, <3>2
  <2>5. origin' \in [Requests -> SUBSET Phrases]
        BY <1>2, <2>2 DEF ServeStep, WalletInv, TypeOK, StartTypeOK
  <2>6. QED
        BY <2>1, <2>3, <2>4, <2>5 DEF WalletInv, TypeOK
<1>3. CASE StopStep
  <2>1. node' = "stopped" /\ used' = used /\ origin' = origin
        BY <1>3 DEF StopStep, Stop
  <2>2. \A s \in Requests : request[s].pc = "new" => request'[s].pc = "new"
        BY <1>3 DEF StopStep, Crash, allocationVars, InFlight
  <2>3. QED
        BY <2>1, <2>2 DEF WalletInv, TypeOK
<1>4. CASE UNCHANGED vars
      BY <1>4 DEF vars, startVars, allocationVars, WalletInv, TypeOK
<1>5. QED
      BY <1>1, <1>2, <1>3, <1>4 DEF Next

LEMMA WalletCorrect == Spec => []WalletInv
<1>1. WalletInv /\ StartTypeOK' /\ AllocationTypeOK' /\ [Next]_vars => WalletInv'
      BY WalletStep
<1>2. QED
      BY <1>1, InitWallet, ImplementsStart, ImplementsAllocation, StartTyped, AllocationTyped, PTL
         DEF Spec

\* The types of the wallet hold; no more passwords are tried than allowed.
THEOREM TypeCorrect == Spec => []TypeOK
<1>1. WalletInv => TypeOK
      BY DEF WalletInv
<1>2. QED
      BY <1>1, WalletCorrect, PTL

\* However often the node starts and stops, the key file holds the phrase from
\* which any deposit address it gave out is derived.
THEOREM AddressesRecoverable == Spec => []AddressesAreRecoverable
<1>1. WalletInv /\ UsedPhraseIsKept => AddressesAreRecoverable
      BY DEF WalletInv, UsedPhraseIsKept, AddressesAreRecoverable
<1>2. QED
      BY <1>1, WalletCorrect, UsedPhraseStays, PTL
=============================================================================
