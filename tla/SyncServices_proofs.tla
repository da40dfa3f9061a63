------------------------- MODULE SyncServices_proofs -------------------------
(***************************************************************************)
(* TLAPS proofs about two services of sync: the keys that encrypt it       *)
(* (EncryptionKeys) and the hub of those who work on a file at once        *)
(* (RealtimeHub), for any requests, shares, clients, files and bounds.     *)
(*                                                                         *)
(* Of the keys: type correctness; only the one master key in the files;    *)
(* where it is when it is needed; and the recovery key answered last.  Of  *)
(* the hub: type correctness; the agreement of the subscription tables;    *)
(* the open Send channels; and that the locks implement FileLease.         *)
(***************************************************************************)
EXTENDS EncryptionKeys, RealtimeHub, TLAPS

------------------------------------------------------------------------------
(* The keys.                                                                   *)

USE EncryptionAssumption DEF EncryptionAssumption

\* Nobody has got past the first look at the keys.
Fresh == \A c \in Requests : request[c].op # "none" => request[c].at \in {"load", "recover"}

\* A master key that could not be saved is seen by nobody, and without
\* master.key there has been nothing to keep.
NothingYet ==
  /\ masterKey = "derived" => ~unlocked /\ Fresh
  /\ master = NoFile => ~unlocked /\ Fresh /\ masterKey # "master" /\ recovery = NoFile

\* Whoever got past it finds the key, unless a wrong one was tried.
InUse == unlocked \/ ~Fresh => masterKey = "master" \/ "wrong key" \in events

KeyInv == NothingYet /\ OnlyMaster /\ PasswordKeepsKey /\ InUse

\* A request has made a recovery key when it is past the making of one.
Made(r) ==
  /\ r.op \in {"initialize", "unlock", "recovery"} /\ r.at \in {"load", "make"} => r.made = 0
  /\ r.op = "initialize" /\ r.at = "open" => r.made # 0
  /\ r.op = "recovery" /\ r.at = "answer" => r.made # 0

\* Of recovery keys made one at a time, the last is on disk.
LastMade ==
  /\ \A c, d \in Unanswered : c = d
  /\ recovery.is = "whole" => \A c \in Unanswered : request[c].made = recovery.under
  /\ recovery.is = "whole" /\ Unanswered = {} => recovery.under = answered

Quiet == events \cap {"two made at once", "not answered"} = {}

RecoveryInv == (\A c \in Requests : Made(request[c])) /\ (Quiet => LastMade)

IInv == TypeOK /\ KeyInv /\ RecoveryInv

------------------------------------------------------------------------------
\* What a request is about at each of its steps.
LEMMA Shapes ==
  ASSUME TypeOK, NEW c \in Requests
  PROVE  /\ request[c].op = "none" \/ \E step : At(c, step)
         /\ At(c, "load") => /\ request[c].op \in {"initialize", "unlock"}
                             /\ request[c].password \in Passwords /\ request[c].made \in 0..MaxMade
         /\ At(c, "make") => request[c].op \in {"initialize", "recovery"} /\ request[c].made \in 0..MaxMade
         /\ At(c, "open") => \/ request[c].op \in {"initialize", "unlock"} /\ request[c].made \in 0..MaxMade
                             \/ request[c].op = "recover"
         /\ At(c, "answer") => request[c].op = "recovery" /\ request[c].made \in 0..MaxMade
         /\ At(c, "recover") => request[c].op = "recover" /\ request[c].with \in 0..MaxMade
         /\ At(c, "change") => request[c].op = "change" /\ request[c].old \in Passwords /\ request[c].new \in Passwords
         /\ At(c, "share") => request[c].op = "share" /\ request[c].share \in Shares
<1>1. request[c] \in Entries
  BY DEF TypeOK
<1> QED
  BY <1>1 DEF Entries, At, Idle

\* The steps of a request stay within it.
LEMMA Moves ==
  ASSUME TypeOK, NEW c \in Requests
  PROVE  /\ Idle \in Entries
         /\ At(c, "load") => [request[c] EXCEPT !.at = "make"] \in Entries \/ request[c].op # "initialize"
         /\ At(c, "load") => [request[c] EXCEPT !.at = "open"] \in Entries
         /\ At(c, "recover") => [request[c] EXCEPT !.at = "open"] \in Entries
         /\ At(c, "make") /\ request[c].op = "initialize" =>
              \A n \in 0..MaxMade : [request[c] EXCEPT !.at = "open", !.made = n] \in Entries
         /\ At(c, "make") /\ request[c].op = "recovery" =>
              \A n \in 0..MaxMade : [request[c] EXCEPT !.at = "answer", !.made = n] \in Entries
<1>1. request[c] \in Entries
  BY DEF TypeOK
<1> QED
  BY <1>1 DEF Entries, At, Idle

\* A file is missing, torn or whole.
LEMMA Whole ==
  ASSUME TypeOK
  PROVE  /\ master \notin {NoFile, Torn} =>
              master = [is |-> "whole", under |-> master.under, key |-> master.key]
              /\ master.is = "whole" /\ master.under \in Passwords /\ master.key \in Keys
         /\ recovery \notin {NoFile, Torn} =>
              recovery.is = "whole" /\ recovery.under \in 1..MaxMade /\ recovery.key \in Keys
         /\ NoFile # Torn /\ NoFile.is # "whole" /\ Torn.is # "whole"
BY DEF TypeOK, MasterFiles, RecoveryFiles, NoFile, Torn

\* A write that fails is one more, and leaves the old, the new or a torn file.
LEMMA Written ==
  ASSUME TypeOK
  PROVE  \A f, old, new : Writes(f, old, new) \/ WriteFails(f, old, new) =>
           f \in {old, Torn, new} /\ faults' \in 0..MaxFaults
<1>1. faults \in 0..MaxFaults
  BY DEF TypeOK
<1> QED
  BY <1>1 DEF Writes, WriteFails

------------------------------------------------------------------------------
LEMMA TypeInit == Init => TypeOK
<1>1. 0 \in 0..MaxMade /\ 0 \in 0..MaxFaults /\ 0 \in 0..MaxRestarts
  OBVIOUS
<1>2. NoFile \in MasterFiles /\ NoFile \in RecoveryFiles /\ NoFile \in ShareFiles /\ Idle \in Entries
  BY DEF MasterFiles, RecoveryFiles, ShareFiles, Entries
<1> QED
  BY <1>1, <1>2 DEF Init, TypeOK, Keys

\* The step of a request.
LEMMA TypeStepOf ==
  ASSUME TypeOK, NEW c \in Requests, Step(c)
  PROVE  TypeOK'
<1>0. /\ Idle \in Entries /\ request \in [Requests -> Entries]
      /\ \A r \in Entries : Continue(c, r) => request' \in [Requests -> Entries]
  BY Moves DEF Continue, TypeOK
<1>1. CASE GenerateMaster(c)
  <2>1. PICK new \in MasterFiles :
          /\ Writes(master', master, new) \/ WriteFails(master', master, new)
          /\ masterKey' \in Keys /\ (Loaded(c) \/ End(c))
    <3>1. [is |-> "whole", under |-> request[c].password, key |-> "master"] \in MasterFiles
      BY <1>1, Shapes DEF GenerateMaster, MasterFiles, Keys
    <3> QED
      BY <1>1, <3>1 DEF GenerateMaster, Keys
  <2>2. request' \in [Requests -> Entries]
    BY <1>0, <1>1, <2>1, Moves, Shapes DEF Loaded, End, GenerateMaster
  <2>3. master' \in MasterFiles /\ faults' \in 0..MaxFaults
    <3>1. master \in MasterFiles /\ Torn \in MasterFiles
      BY DEF TypeOK, MasterFiles
    <3> QED
      BY <2>1, <3>1, Written
  <2> QED
    BY <1>1, <2>1, <2>2, <2>3 DEF GenerateMaster, TypeOK, history
<1>2. CASE LoadMaster(c)
  <2>1. request' \in [Requests -> Entries]
    BY <1>0, <1>2, Moves, Shapes DEF LoadMaster, Unparsed, Loaded, End
  <2>2. masterKey' \in Keys /\ events' \subseteq {"wrong key", "two made at once", "not answered"}
    BY <1>2, Whole DEF LoadMaster, WrongKey, Undecrypted, TypeOK, Keys
  <2> QED
    BY <1>2, <2>1, <2>2 DEF LoadMaster, TypeOK, files, bounds
<1>3. CASE MakingFails(c) \/ Answer(c)
  <2>1. request' \in [Requests -> Entries]
    BY <1>0, <1>3 DEF MakingFails, Answer, End
  <2>2. answered' \in 0..MaxMade
    BY <1>3, Shapes DEF MakingFails, Answer, history, TypeOK
  <2> QED
    BY <1>3, <2>1, <2>2 DEF MakingFails, Answer, TypeOK, manager, files, bounds, history
<1>4. CASE MakeRecovery(c)
  <2>1. made' \in 1..MaxMade /\ made' \in 0..MaxMade
    <3>1. made < MaxMade /\ made' = made + 1
      BY <1>4 DEF MakeRecovery
    <3>2. made \in 0..MaxMade
      BY DEF TypeOK
    <3> QED
      BY <3>1, <3>2
  <2>2. NewRecovery \in RecoveryFiles
    BY <1>4, <2>1 DEF NewRecovery, RecoveryFiles, TypeOK, MakeRecovery
  <2>3. recovery' \in RecoveryFiles /\ faults' \in 0..MaxFaults
    <3>1. Writes(recovery', recovery, NewRecovery) \/ WriteFails(recovery', recovery, NewRecovery)
      BY <1>4 DEF MakeRecovery
    <3>2. recovery \in RecoveryFiles /\ Torn \in RecoveryFiles
      BY DEF TypeOK, RecoveryFiles
    <3> QED
      BY <2>2, <3>1, <3>2, Written
  <2>4. request' \in [Requests -> Entries]
    <3>1. CASE End(c)
      BY <1>0, <3>1 DEF End
    <3>2. CASE Continue(c, [request[c] EXCEPT !.at = IF request[c].op = "initialize" THEN "open" ELSE "answer",
                                              !.made = made'])
      <4>1. At(c, "make") /\ made' \in 0..MaxMade
        <5>1. At(c, "make")
          BY <1>4 DEF MakeRecovery
        <5> QED
          BY <2>1, <5>1
      <4>2. CASE request[c].op = "initialize"
        BY <1>0, <3>2, <4>1, <4>2, Moves
      <4>3. CASE request[c].op = "recovery"
        BY <1>0, <3>2, <4>1, <4>3, Moves
      <4> QED
        BY <4>1, <4>2, <4>3, Shapes
    <3> QED
      BY <1>4, <3>1, <3>2 DEF MakeRecovery
  <2>5. events' \subseteq {"wrong key", "two made at once", "not answered"}
    BY <1>4 DEF MakeRecovery, TypeOK
  <2>6. UNCHANGED <<manager, master, share, restarts, answered>>
    BY <1>4 DEF MakeRecovery
  <2> QED
    BY <2>1, <2>3, <2>4, <2>5, <2>6 DEF TypeOK, manager
<1>5. CASE OpenUp(c)
  <2>1. request' \in [Requests -> Entries]
    BY <1>0, <1>5 DEF OpenUp, End
  <2>2. answered' \in 0..MaxMade
    BY <1>5, Shapes DEF OpenUp, TypeOK
  <2> QED
    BY <1>5, <2>1, <2>2 DEF OpenUp, TypeOK, files, bounds
<1>6. CASE Recover(c)
  <2>1. request' \in [Requests -> Entries]
    BY <1>0, <1>6, Moves DEF Recover, End
  <2>2. masterKey' \in Keys /\ events' \subseteq {"wrong key", "two made at once", "not answered"}
    BY <1>6, Whole DEF Recover, WrongKey, Undecrypted, TypeOK, Keys
  <2> QED
    BY <1>6, <2>1, <2>2 DEF Recover, TypeOK, files, bounds
<1>7. CASE Rewrap(c)
  <2>1. request' \in [Requests -> Entries]
    BY <1>0, <1>7 DEF Rewrap, End
  <2>2. [is |-> "whole", under |-> request[c].new, key |-> masterKey] \in MasterFiles
    BY <1>7, Shapes DEF Rewrap, MasterFiles, TypeOK
  <2>3. master' \in MasterFiles /\ faults' \in 0..MaxFaults
    <3>1. master \in MasterFiles /\ Torn \in MasterFiles /\ faults \in 0..MaxFaults
      BY DEF TypeOK, MasterFiles
    <3> QED
      BY <1>7, <2>2, <3>1, Written DEF Rewrap
  <2> QED
    BY <1>7, <2>1, <2>3 DEF Rewrap, TypeOK, manager, history
<1>8. CASE GenerateShareKey(c)
  <2>1. request' \in [Requests -> Entries]
    BY <1>0, <1>8 DEF GenerateShareKey, End
  <2> DEFINE s == request[c].share
             new == [is |-> "whole", key |-> masterKey]
  <2>2. s \in Shares /\ {share[s], Torn, new} \subseteq ShareFiles
    <3>1. s \in Shares /\ masterKey \in Keys /\ share[s] \in ShareFiles
      BY <1>8, Shapes DEF GenerateShareKey, TypeOK
    <3> QED
      BY <3>1 DEF ShareFiles
  <2>3. CASE UNCHANGED <<share, shareKeys, faults>>
    BY <1>8, <2>1, <2>3 DEF GenerateShareKey, TypeOK, history
  <2>4. ASSUME NEW f \in {share[s], Torn, new}, share' = [share EXCEPT ![s] = f],
               Writes(f, share[s], new) \/ WriteFails(f, share[s], new),
               shareKeys' \in {shareKeys, shareKeys \cup {s}}
        PROVE  TypeOK'
    <3>1. share' \in [Shares -> ShareFiles] /\ shareKeys' \subseteq Shares
      BY <2>2, <2>4 DEF TypeOK
    <3>2. faults' \in 0..MaxFaults
      BY <2>4, Written
    <3> QED
      BY <1>8, <2>1, <3>1, <3>2 DEF GenerateShareKey, TypeOK, history
  <2> QED
    BY <1>8, <2>3, <2>4 DEF GenerateShareKey
<1> QED
  BY <1>1, <1>2, <1>3, <1>4, <1>5, <1>6, <1>7, <1>8 DEF Step

LEMMA TypeStep == TypeOK /\ [Next]_vars => TypeOK'
<1> SUFFICES ASSUME TypeOK, [Next]_vars
             PROVE  TypeOK'
  OBVIOUS
<1>1. ASSUME NEW c \in Requests, Arrive(c)
      PROVE  TypeOK'
  <2>1. PICK r \in Entries : Continue(c, r)
    <3>1. \A p \in Passwords : \A op \in {"initialize", "unlock"} : Opening(op, p) \in Entries
      BY DEF Opening, Entries
    <3>2. \A k \in 0..made : [op |-> "recover", at |-> "recover", with |-> k] \in Entries
      <4>1. made \in 0..MaxMade
        BY DEF TypeOK
      <4> QED
        BY <4>1 DEF Entries
    <3>3. /\ \A p, q \in Passwords : [op |-> "change", at |-> "change", old |-> p, new |-> q] \in Entries
          /\ [op |-> "recovery", at |-> "make", made |-> 0] \in Entries
          /\ \A s \in Shares : [op |-> "share", at |-> "share", share |-> s] \in Entries
      BY DEF Entries
    <3> QED
      BY <1>1, <3>1, <3>2, <3>3 DEF Arrive, Initialize, Unlock, ChangePassword, RecoverWith, NewRecoveryKey, ShareKey
  <2>2. request' \in [Requests -> Entries]
    BY <2>1 DEF Continue, TypeOK
  <2> QED
    BY <1>1, <2>2 DEF Arrive, TypeOK, manager, files, bounds, history
<1>2. CASE Lock
  BY <1>2 DEF Lock, TypeOK, files, bounds, history
<1>3. CASE Restart
  <2>1. request' \in [Requests -> Entries] /\ masterKey' \in Keys
    BY <1>3 DEF Restart, Entries, Keys
  <2>2. restarts' \in 0..MaxRestarts
    <3>1. restarts \in 0..MaxRestarts /\ restarts < MaxRestarts /\ restarts' = restarts + 1
      BY <1>3 DEF Restart, TypeOK
    <3> QED
      BY <3>1
  <2> QED
    BY <1>3, <2>1, <2>2 DEF Restart, TypeOK, files
<1>4. CASE UNCHANGED vars
  BY <1>4 DEF vars, manager, files, bounds, history, TypeOK
<1> QED
  BY <1>1, <1>2, <1>3, <1>4, TypeStepOf DEF Next

------------------------------------------------------------------------------
\* Who is further than the first look, and who stays there.
LEMMA Further ==
  ASSUME NEW c \in Requests, NEW step \in {"make", "open", "answer", "change", "share"}, At(c, step)
  PROVE  ~Fresh
BY DEF At, Fresh

LEMMA StaysFresh ==
  ASSUME TypeOK, Fresh, NEW c \in Requests, NEW r,
         Continue(c, r), r.op # "none" => r.at \in {"load", "recover"}
  PROVE  Fresh'
<1>1. request' = [request EXCEPT ![c] = r] /\ request \in [Requests -> Entries]
  BY DEF Continue, TypeOK
<1>2. request'[c] = r /\ \A d \in Requests \ {c} : request'[d] = request[d]
  BY <1>1
<1> QED
  BY <1>2 DEF Fresh

LEMMA KeyInit == Init => KeyInv
BY DEF Init, KeyInv, NothingYet, OnlyMaster, PasswordKeepsKey, InUse, Fresh, Idle, NoFile

LEMMA EndFresh ==
  ASSUME TypeOK, NEW c \in Requests, End(c), Fresh
  PROVE  Fresh'
<1>1. Idle.op = "none"
  BY DEF Idle
<1> QED
  BY <1>1, StaysFresh DEF End

LEMMA KeyStepOf ==
  ASSUME TypeOK, KeyInv, NEW c \in Requests, Step(c)
  PROVE  KeyInv'
<1> USE DEF KeyInv
<1>1. CASE GenerateMaster(c)
  <2>1. ~unlocked' /\ Fresh /\ UNCHANGED <<recovery, share>> /\ events' = events
    BY <1>1 DEF GenerateMaster, NothingYet, history
  <2>2. OnlyMaster' /\ PasswordKeepsKey'
    <3>1. master' \in {NoFile, Torn, [is |-> "whole", under |-> request[c].password, key |-> "master"]}
      BY <1>1 DEF GenerateMaster, Writes, WriteFails
    <3>2. master'.is = "whole" => master'.key = "master"
      BY <3>1, Whole
    <3> QED
      BY <2>1, <3>2 DEF OnlyMaster, PasswordKeepsKey
  <2>3. CASE masterKey' = "master" /\ master' = [is |-> "whole", under |-> request[c].password, key |-> "master"]
    BY <2>2, <2>3 DEF NothingYet, InUse, NoFile
  <2>4. CASE masterKey' = "derived" /\ End(c)
    <3>1. Fresh' /\ recovery' = NoFile
      BY <1>1, <2>1, <2>4, EndFresh DEF GenerateMaster, NothingYet
    <3> QED
      BY <2>1, <2>2, <2>4, <3>1 DEF NothingYet, InUse
  <2> QED
    BY <1>1, <2>3, <2>4 DEF GenerateMaster, Writes
<1>2. CASE LoadMaster(c)
  <2>1. UNCHANGED <<unlocked, master, recovery, share>> /\ master # NoFile /\ events \subseteq events'
    BY <1>2 DEF LoadMaster, files, WrongKey
  <2>2. OnlyMaster' /\ PasswordKeepsKey'
    BY <2>1 DEF OnlyMaster, PasswordKeepsKey
  <2>3. CASE End(c) /\ UNCHANGED <<masterKey, events>>
    BY <2>1, <2>2, <2>3, EndFresh DEF NothingYet, InUse
  <2>4. CASE master # Torn /\ masterKey' = master.key /\ UNCHANGED events
    <3>1. master.key = "master" \/ (master.key = "nil" /\ "wrong key" \in events)
      <4>1. master.is = "whole" /\ master.key \in Keys
        BY <2>1, <2>4, Whole
      <4>2. master.key # "derived"
        BY <4>1 DEF OnlyMaster
      <4>3. master.key = "nil" => "wrong key" \in events
        BY <4>1 DEF PasswordKeepsKey
      <4> QED
        BY <4>1, <4>2, <4>3 DEF Keys
    <3> QED
      BY <2>1, <2>2, <2>4, <3>1 DEF NothingYet, InUse
  <2>5. CASE WrongKey
    BY <2>1, <2>2, <2>5 DEF NothingYet, InUse, WrongKey, Undecrypted
  <2> QED
    BY <1>2, <2>3, <2>4, <2>5 DEF LoadMaster, Unparsed
<1>3. CASE MakingFails(c) \/ Answer(c)
  <2>1. UNCHANGED <<unlocked, masterKey, master, recovery, share, events>> /\ End(c)
    BY <1>3 DEF MakingFails, Answer, manager, files, history
  <2>2. Fresh => Fresh'
    BY <2>1, EndFresh
  <2> QED
    BY <2>1, <2>2 DEF NothingYet, OnlyMaster, PasswordKeepsKey, InUse
<1>4. CASE MakeRecovery(c)
  <2>1. ~Fresh
    BY <1>4, Further DEF MakeRecovery
  <2>2. masterKey = "master" /\ master # NoFile
    BY <1>4, <2>1 DEF MakeRecovery, NothingYet, TypeOK, Keys
  <2>3. UNCHANGED <<masterKey, unlocked, master, share>> /\ events \subseteq events'
    BY <1>4 DEF MakeRecovery, manager
  <2>4. recovery' \in {recovery, Torn, NewRecovery}
    BY <1>4 DEF MakeRecovery, Writes, WriteFails
  <2>5. OnlyMaster'
    BY <2>2, <2>3, <2>4 DEF OnlyMaster, NewRecovery, Torn
  <2> QED
    BY <2>2, <2>3, <2>5 DEF NothingYet, PasswordKeepsKey, InUse
<1>5. CASE OpenUp(c)
  <2>1. ~Fresh /\ UNCHANGED <<masterKey, master, recovery, share, events>>
    BY <1>5, Further DEF OpenUp, files
  <2> QED
    BY <2>1 DEF NothingYet, OnlyMaster, PasswordKeepsKey, InUse
<1>6. CASE Recover(c)
  <2>1. UNCHANGED <<unlocked, master, recovery, share>> /\ events \subseteq events'
    BY <1>6 DEF Recover, files, WrongKey
  <2>2. OnlyMaster' /\ PasswordKeepsKey'
    BY <2>1 DEF OnlyMaster, PasswordKeepsKey
  <2>3. CASE End(c) /\ UNCHANGED <<masterKey, events>>
    BY <2>1, <2>2, <2>3, EndFresh DEF NothingYet, InUse
  <2>4. CASE recovery \notin {NoFile, Torn} /\ masterKey' = recovery.key
    BY <2>1, <2>2, <2>4, Whole DEF NothingYet, InUse, OnlyMaster
  <2>5. CASE recovery \notin {NoFile, Torn} /\ WrongKey
    BY <2>1, <2>2, <2>5 DEF NothingYet, InUse, WrongKey, Undecrypted
  <2> QED
    BY <1>6, <2>3, <2>4, <2>5 DEF Recover
<1>7. CASE Rewrap(c)
  <2>1. ~Fresh /\ UNCHANGED <<unlocked, masterKey, recovery, share, events>>
    BY <1>7, Further DEF Rewrap, manager, history
  <2>2. master # NoFile /\ masterKey # "derived" /\ (masterKey = "master" \/ "wrong key" \in events)
    BY <2>1 DEF NothingYet, InUse
  <2>3. master' \in {master, Torn, [is |-> "whole", under |-> request[c].new, key |-> masterKey]}
    BY <1>7 DEF Rewrap, Writes, WriteFails
  <2>4. master' # NoFile /\ (master'.is = "whole" => master' = master \/ master'.key = masterKey)
    <3>1. CASE master' = [is |-> "whole", under |-> request[c].new, key |-> masterKey]
      BY <3>1 DEF NoFile
    <3>2. CASE master' \in {master, Torn}
      BY <2>2, <3>2, Whole
    <3> QED
      BY <2>3, <3>1, <3>2
  <2>5. OnlyMaster' /\ PasswordKeepsKey'
    BY <2>1, <2>2, <2>4 DEF OnlyMaster, PasswordKeepsKey
  <2> QED
    BY <2>1, <2>2, <2>4, <2>5 DEF NothingYet, InUse
<1>8. CASE GenerateShareKey(c)
  <2>1. ~Fresh /\ UNCHANGED <<unlocked, masterKey, master, recovery, events>>
    BY <1>8, Further DEF GenerateShareKey, history
  <2>2. master # NoFile /\ masterKey # "derived" /\ (masterKey = "master" \/ "wrong key" \in events)
    BY <2>1 DEF NothingYet, InUse
  <2>3. \A s \in Shares : share'[s].is = "whole" => share'[s].key = "master"
    <3>1. CASE UNCHANGED share
      BY <3>1 DEF OnlyMaster
    <3>2. ASSUME masterKey # "nil",
                 NEW f \in {share[request[c].share], Torn, [is |-> "whole", key |-> masterKey]},
                 share' = [share EXCEPT ![request[c].share] = f]
          PROVE  \A s \in Shares : share'[s].is = "whole" => share'[s].key = "master"
      <4>1. masterKey = "master" /\ request[c].share \in Shares
        BY <1>8, <2>2, <3>2, Shapes DEF GenerateShareKey, TypeOK, Keys
      <4>2. f.is = "whole" => f.key = "master"
        BY <3>2, <4>1 DEF OnlyMaster, Torn
      <4> QED
        BY <3>2, <4>1, <4>2 DEF OnlyMaster, TypeOK
    <3> QED
      BY <1>8, <3>1, <3>2 DEF GenerateShareKey
  <2>4. OnlyMaster'
    BY <2>1, <2>3 DEF OnlyMaster
  <2> QED
    BY <2>1, <2>2, <2>4 DEF NothingYet, PasswordKeepsKey, InUse
<1> QED
  BY <1>1, <1>2, <1>3, <1>4, <1>5, <1>6, <1>7, <1>8 DEF Step

LEMMA KeyStep == TypeOK /\ KeyInv /\ [Next]_vars => KeyInv'
<1> SUFFICES ASSUME TypeOK, KeyInv, [Next]_vars
             PROVE  KeyInv'
  OBVIOUS
<1> USE DEF KeyInv
<1>1. ASSUME NEW c \in Requests, Arrive(c)
      PROVE  KeyInv'
  <2>1. UNCHANGED <<unlocked, masterKey, master, recovery, share, events>>
    BY <1>1 DEF Arrive, manager, files, history
  <2>2. ~unlocked /\ Fresh => Fresh'
    <3> SUFFICES ASSUME ~unlocked, Fresh
                 PROVE  Fresh'
      OBVIOUS
    <3>1. PICK r : Continue(c, r) /\ r.at \in {"load", "recover"}
      <4>1. \/ \E p \in Passwords : \E op \in {"initialize", "unlock"} : Continue(c, Opening(op, p))
            \/ \E k \in 0..made : Continue(c, [op |-> "recover", at |-> "recover", with |-> k])
        BY <1>1 DEF Arrive, Initialize, Unlock, RecoverWith, ChangePassword, NewRecoveryKey, ShareKey
      <4>2. \A p, op : Opening(op, p).at = "load"
        BY DEF Opening
      <4>3. ASSUME NEW p \in Passwords, NEW op \in {"initialize", "unlock"}, Continue(c, Opening(op, p))
            PROVE  \E r : Continue(c, r) /\ r.at \in {"load", "recover"}
        BY <4>2, <4>3
      <4>4. ASSUME NEW k \in 0..made, Continue(c, [op |-> "recover", at |-> "recover", with |-> k])
            PROVE  \E r : Continue(c, r) /\ r.at \in {"load", "recover"}
        BY <4>4
      <4> QED
        BY <4>1, <4>3, <4>4
    <3> QED
      BY <3>1, StaysFresh
  <2> QED
    BY <2>1, <2>2 DEF NothingYet, OnlyMaster, PasswordKeepsKey, InUse
<1>2. CASE Lock
  <2>1. UNCHANGED <<masterKey, master, recovery, share, events, request>> /\ unlocked /\ ~unlocked'
    BY <1>2 DEF Lock, files, history
  <2>2. Fresh' = Fresh
    BY <2>1 DEF Fresh
  <2> QED
    BY <2>1, <2>2 DEF NothingYet, OnlyMaster, PasswordKeepsKey, InUse
<1>3. CASE Restart
  <2>1. masterKey' = "nil" /\ ~unlocked' /\ UNCHANGED <<master, recovery, share>> /\ events \subseteq events'
    BY <1>3 DEF Restart, files
  <2>2. Fresh'
    BY <1>3 DEF Restart, Fresh, Idle
  <2> QED
    BY <2>1, <2>2 DEF NothingYet, OnlyMaster, PasswordKeepsKey, InUse
<1>4. CASE UNCHANGED vars
  BY <1>4 DEF vars, manager, files, bounds, history, NothingYet, OnlyMaster, PasswordKeepsKey, InUse, Fresh
<1> QED
  BY <1>1, <1>2, <1>3, <1>4, KeyStepOf DEF Next

------------------------------------------------------------------------------
\* A request that has made no recovery key goes on to a step without one.
LEMMA Untouched ==
  ASSUME TypeOK, RecoveryInv, NEW c \in Requests, NEW r, Continue(c, r), c \notin Unanswered,
         Made(r), r.op \in {"initialize", "recovery"} => r.made = 0,
         UNCHANGED <<recovery, answered>>, events \subseteq events'
  PROVE  RecoveryInv'
<1>1. request'[c] = r /\ \A d \in Requests \ {c} : request'[d] = request[d]
  BY DEF Continue, TypeOK
<1>2. \A d \in Requests : Made(request'[d])
  BY <1>1 DEF RecoveryInv
<1>3. Unanswered' = Unanswered /\ \A d \in Unanswered : request'[d] = request[d]
  BY <1>1 DEF Unanswered
<1>4. Quiet' => Quiet
  BY DEF Quiet
<1>5. LastMade => LastMade'
  BY <1>3 DEF LastMade
<1> QED
  BY <1>2, <1>4, <1>5 DEF RecoveryInv, Made

\* Who is at a step of its own has made none, or has.
LEMMA WhoMade ==
  ASSUME TypeOK, RecoveryInv, NEW c \in Requests
  PROVE  /\ \A step \in {"load", "make", "recover", "change", "share"} : At(c, step) => c \notin Unanswered
         /\ request[c].op = "none" => c \notin Unanswered
         /\ At(c, "open") => (c \in Unanswered <=> request[c].op = "initialize")
         /\ At(c, "answer") => c \in Unanswered
<1>1. Made(request[c])
  BY DEF RecoveryInv
<1> QED
  BY <1>1, Shapes DEF At, Made, Unanswered

LEMMA IdleMade == Made(Idle) /\ Idle.op = "none"
BY DEF Made, Idle

\* Who ends with nothing made.
LEMMA EndsUnmade ==
  ASSUME TypeOK, RecoveryInv, NEW c \in Requests, End(c), c \notin Unanswered,
         UNCHANGED <<recovery, answered>>, events \subseteq events'
  PROVE  RecoveryInv'
BY Untouched, IdleMade DEF End

\* Who answers with the recovery key that it made.
LEMMA Answers ==
  ASSUME TypeOK, RecoveryInv, NEW c \in Unanswered, End(c), answered' = request[c].made,
         UNCHANGED <<recovery, events>>
  PROVE  RecoveryInv'
<1>1. c \in Requests
  BY DEF Unanswered
<1>2. request'[c] = Idle /\ \A d \in Requests \ {c} : request'[d] = request[d]
  BY <1>1 DEF End, Continue, TypeOK
<1>3. \A d \in Requests : Made(request'[d])
  BY <1>2, IdleMade DEF RecoveryInv
<1>4. ASSUME Quiet
      PROVE  LastMade'
  <2>1. LastMade
    BY <1>4 DEF RecoveryInv
  <2>2. Unanswered' = {}
    BY <1>2, <2>1, IdleMade DEF LastMade, Unanswered
  <2> QED
    BY <2>1, <2>2 DEF LastMade
<1> QED
  BY <1>3, <1>4 DEF RecoveryInv, Quiet, Made

LEMMA RecoveryInit == Init => RecoveryInv
BY DEF Init, RecoveryInv, LastMade, Unanswered, Made, Idle, NoFile

LEMMA RecoveryStepOf ==
  ASSUME TypeOK, RecoveryInv, NEW c \in Requests, Step(c)
  PROVE  RecoveryInv'
<1>1. CASE GenerateMaster(c) \/ LoadMaster(c)
  <2>1. At(c, "load") /\ c \notin Unanswered
    BY <1>1, WhoMade DEF GenerateMaster, LoadMaster
  <2>2. UNCHANGED <<recovery, answered>> /\ events \subseteq events'
    BY <1>1 DEF GenerateMaster, LoadMaster, history, files, WrongKey
  <2>3. CASE Loaded(c)
    <3> DEFINE r == [request[c] EXCEPT !.at = IF request[c].op = "initialize" THEN "make" ELSE "open"]
    <3>1. /\ request[c].op \in {"initialize", "unlock"} /\ request[c].made = 0 /\ request[c] \in Entries
          /\ request[c].at = "load"
      BY <2>1, Shapes DEF At, RecoveryInv, Made, TypeOK
    <3>2. r.op = request[c].op /\ r.made = 0 /\ (r.op = "initialize" => r.at = "make")
      BY <3>1 DEF Entries, Idle
    <3>3. Made(r)
      BY <3>1, <3>2 DEF Made
    <3>4. Continue(c, r)
      BY <2>3 DEF Loaded
    <3> HIDE DEF r
    <3> QED
      BY <2>1, <2>2, <3>2, <3>3, <3>4, Untouched
  <2> QED
    BY <1>1, <2>1, <2>2, <2>3, EndsUnmade DEF GenerateMaster, LoadMaster, Unparsed
<1>2. CASE MakingFails(c)
  BY <1>2, WhoMade, EndsUnmade DEF MakingFails, history, files
<1>3. CASE MakeRecovery(c)
  <2>1. CASE End(c) /\ events' = events \cup {"not answered"}
    <3>1. request'[c] = Idle /\ \A d \in Requests \ {c} : request'[d] = request[d]
      BY <2>1 DEF End, Continue, TypeOK
    <3>2. ~Quiet'
      BY <2>1 DEF Quiet
    <3> QED
      BY <3>1, <3>2, IdleMade DEF RecoveryInv, Made
  <2>2. CASE /\ Writes(recovery', recovery, NewRecovery)
             /\ Continue(c, [request[c] EXCEPT !.at = IF request[c].op = "initialize" THEN "open" ELSE "answer",
                                               !.made = made'])
             /\ events' = events \cup IF Unanswered # {} THEN {"two made at once"} ELSE {}
    <3> DEFINE r == [request[c] EXCEPT !.at = IF request[c].op = "initialize" THEN "open" ELSE "answer",
                                       !.made = made']
    <3>1. made' = made + 1 /\ made' # 0
      <4>1. made' = made + 1
        BY <1>3 DEF MakeRecovery
      <4>2. made \in 0..MaxMade
        BY DEF TypeOK
      <4> QED
        BY <4>1, <4>2
    <3>2. request[c].op \in {"initialize", "recovery"} /\ request[c] \in Entries /\ request[c].at = "make"
      BY <1>3, Shapes DEF MakeRecovery, At, TypeOK
    <3>3. r.op = request[c].op /\ r.made = made' /\ (r.at = IF request[c].op = "initialize" THEN "open" ELSE "answer")
      BY <3>2 DEF Entries, Idle
    <3>4. Made(r)
      BY <3>1, <3>2, <3>3 DEF Made
    <3>5. request' = [request EXCEPT ![c] = r]
      BY <2>2 DEF Continue
    <3>6. UNCHANGED answered
      BY <1>3 DEF MakeRecovery
    <3> HIDE DEF r
    <3>7. request'[c] = r /\ \A d \in Requests \ {c} : request'[d] = request[d]
      BY <3>5 DEF TypeOK
    <3>8. \A d \in Requests : Made(request'[d])
      BY <3>4, <3>7 DEF RecoveryInv
    <3>9. ASSUME Quiet'
          PROVE  LastMade'
      <4>1. Unanswered = {}
        BY <2>2, <3>9 DEF Quiet
      <4>2. Unanswered' = {c}
        BY <3>1, <3>2, <3>3, <3>7, <4>1 DEF Unanswered
      <4>3. recovery'.under = made'
        BY <2>2, <3>1 DEF Writes, NewRecovery
      <4> QED
        BY <3>3, <3>7, <4>2, <4>3 DEF LastMade
    <3> QED
      BY <3>8, <3>9 DEF RecoveryInv, Made
  <2> QED
    BY <1>3, <2>1, <2>2 DEF MakeRecovery
<1>4. CASE Answer(c)
  BY <1>4, WhoMade, Answers DEF Answer, files
<1>5. CASE OpenUp(c)
  <2>1. CASE request[c].op = "initialize"
    BY <1>5, <2>1, WhoMade, Answers DEF OpenUp, files
  <2>2. CASE request[c].op # "initialize"
    BY <1>5, <2>2, WhoMade, EndsUnmade DEF OpenUp, files
  <2> QED
    BY <2>1, <2>2
<1>6. CASE Recover(c)
  <2>1. At(c, "recover") /\ c \notin Unanswered /\ UNCHANGED <<recovery, answered>> /\ events \subseteq events'
    BY <1>6, WhoMade DEF Recover, files, WrongKey
  <2>2. CASE Continue(c, [request[c] EXCEPT !.at = "open"])
    <3> DEFINE r == [request[c] EXCEPT !.at = "open"]
    <3>1. request[c].op = "recover" /\ request[c] \in Entries
      BY <2>1, Shapes DEF TypeOK
    <3>2. r.op = "recover"
      BY <3>1 DEF Entries, Idle
    <3> HIDE DEF r
    <3>3. Made(r)
      BY <3>2 DEF Made
    <3>4. Continue(c, r)
      BY <2>2 DEF r
    <3> QED
      BY <2>1, <3>2, <3>3, <3>4, Untouched
  <2> QED
    BY <1>6, <2>1, <2>2, EndsUnmade DEF Recover
<1>7. CASE Rewrap(c) \/ GenerateShareKey(c)
  BY <1>7, WhoMade, EndsUnmade DEF Rewrap, GenerateShareKey, history
<1> QED
  BY <1>1, <1>2, <1>3, <1>4, <1>5, <1>6, <1>7 DEF Step

LEMMA RecoveryStep == TypeOK /\ RecoveryInv /\ [Next]_vars => RecoveryInv'
<1> SUFFICES ASSUME TypeOK, RecoveryInv, [Next]_vars
             PROVE  RecoveryInv'
  OBVIOUS
<1>1. ASSUME NEW c \in Requests, Arrive(c)
      PROVE  RecoveryInv'
  <2>1. PICK r : Continue(c, r) /\ Made(r) /\ (r.op \in {"initialize", "recovery"} => r.made = 0)
    <3>1. \A p \in Passwords : \A op \in {"initialize", "unlock"} :
            LET r == Opening(op, p) IN Made(r) /\ r.made = 0
      BY DEF Opening, Made
    <3>2. \A k \in 0..made : LET r == [op |-> "recover", at |-> "recover", with |-> k] IN Made(r) /\ r.op = "recover"
      BY DEF Made
    <3>3. \A p, q \in Passwords :
            LET r == [op |-> "change", at |-> "change", old |-> p, new |-> q] IN Made(r) /\ r.op = "change"
      BY DEF Made
    <3>4. LET r == [op |-> "recovery", at |-> "make", made |-> 0] IN Made(r) /\ r.made = 0
      BY DEF Made
    <3>5. \A s \in Shares : LET r == [op |-> "share", at |-> "share", share |-> s] IN Made(r) /\ r.op = "share"
      BY DEF Made
    <3> QED
      BY <1>1, <3>1, <3>2, <3>3, <3>4, <3>5
      DEF Arrive, Initialize, Unlock, ChangePassword, RecoverWith, NewRecoveryKey, ShareKey
  <2>2. c \notin Unanswered
    BY <1>1, WhoMade, IdleMade DEF Arrive
  <2> QED
    BY <1>1, <2>1, <2>2, Untouched DEF Arrive, files, history
<1>2. CASE Lock
  BY <1>2 DEF Lock, files, history, RecoveryInv, Quiet, LastMade, Unanswered, Made
<1>3. CASE Restart
  <2>1. \A d \in Requests : request'[d] = Idle
    BY <1>3 DEF Restart
  <2>2. Unanswered' = {} /\ \A d \in Requests : Made(request'[d])
    BY <2>1, IdleMade DEF Unanswered
  <2>3. ASSUME Quiet'
        PROVE  LastMade'
    <3>1. Unanswered = {} /\ Quiet /\ UNCHANGED <<recovery, answered>>
      BY <1>3, <2>3 DEF Restart, Quiet, files
    <3> QED
      BY <2>2, <3>1 DEF LastMade, RecoveryInv
  <2> QED
    BY <2>2, <2>3 DEF RecoveryInv, Made
<1>4. CASE UNCHANGED vars
  BY <1>4 DEF vars, files, history, RecoveryInv, Quiet, LastMade, Unanswered, Made
<1> QED
  BY <1>1, <1>2, <1>3, <1>4, RecoveryStepOf DEF Next

------------------------------------------------------------------------------
LEMMA Invariance == Spec => []IInv
<1>1. Init => IInv
  BY TypeInit, KeyInit, RecoveryInit DEF IInv
<1>2. IInv /\ [Next]_vars => IInv'
  BY TypeStep, KeyStep, RecoveryStep DEF IInv
<1> QED
  BY <1>1, <1>2, PTL DEF Spec

\* The keys, the files and the requests stay of their types (KeyManager, EncryptionHandler).
THEOREM TypeCorrect == Spec => []TypeOK
BY Invariance, PTL DEF IInv

\* Only the one master key gets into recovery.key and the files of shares, and
\* never what a password was turned into (InitializeMasterKey).
THEOREM MasterOnly == Spec => []OnlyMaster
BY Invariance, PTL DEF IInv, KeyInv

\* Unless a wrong key was tried, the key is there while encryption is unlocked
\* (EncryptionHandler.isUnlocked).
THEOREM KeysInReach == Spec => []UnlockedHasKey
<1>1. IInv => UnlockedHasKey
  BY DEF IInv, KeyInv, InUse, UnlockedHasKey
<1> QED
  BY <1>1, Invariance, PTL

\* Unless a wrong key was tried, master.key holds the key (KeyManager.ChangePassword).
THEOREM PasswordsKeep == Spec => []PasswordKeepsKey
BY Invariance, PTL DEF IInv, KeyInv

\* Of recovery keys made one at a time and answered, the last recovers
\* (KeyManager.GenerateRecoveryKey).
THEOREM AnswersRecover == Spec => []AnsweredKeyRecovers
<1>1. IInv => AnsweredKeyRecovers
  BY DEF IInv, RecoveryInv, Quiet, LastMade, AnsweredKeyRecovers
<1> QED
  BY <1>1, Invariance, PTL

------------------------------------------------------------------------------
(* The hub.                                                                    *)

USE HubAssumption

\* The steps of a handler, by what they may do to the tables.
Silent(c) == \/ Refused(c) \/ Ping(c) \/ UpdatePresence(c)
             \/ \E ch \in Channels : Relay(c, ch)

LEMMA HubTypeInit == HubInit => HubTypeOK
<1> SUFFICES ASSUME HubInit PROVE HubTypeOK
  OBVIOUS
<1>1. broadcast \in 0..BroadcastCap
  BY DEF HubInit
<1> QED
  BY <1>1 DEF HubInit, HubTypeOK, Locks

\* Then leaves the reply flag and the debt of every client well typed.
LEMMA ThenType ==
  ASSUME HubTypeOK, NEW c \in Clients, NEW r \in BOOLEAN, NEW S \in SUBSET Channels,
         Then(c, r, S)
  PROVE  replying' \in [Clients -> BOOLEAN] /\ owed' \in [Clients -> SUBSET Channels]
BY DEF HubTypeOK, Then

LEMMA HubTypeStep == HubTypeOK /\ [HubNext]_hubVars => HubTypeOK'
<1> SUFFICES ASSUME HubTypeOK, [HubNext]_hubVars
             PROVE  HubTypeOK'
  OBVIOUS
<1>1. ASSUME NEW c \in Clients, Connect(c) PROVE HubTypeOK'
  BY <1>1 DEF Connect, HubTypeOK, tables
<1>2. ASSUME NEW c \in Clients, Confirm(c) PROVE HubTypeOK'
  BY <1>2 DEF Confirm, HubTypeOK, tables, queues, handler
<1>3. ASSUME NEW c \in Clients, Disconnect(c) PROVE HubTypeOK'
  BY <1>3 DEF Disconnect, HubTypeOK, tables, queues
<1>4. ASSUME NEW c \in Clients, Leave(c) PROVE HubTypeOK'
  BY <1>4 DEF Leave, HubTypeOK, tables
<1>5. ASSUME NEW c \in Clients, Silent(c) PROVE HubTypeOK'
  <2>1. subs[c] \in SUBSET Channels
    BY DEF HubTypeOK
  <2>2. replying' \in [Clients -> BOOLEAN] /\ owed' \in [Clients -> SUBSET Channels]
    BY <1>5, <2>1, ThenType DEF Silent, Refused, Ping, UpdatePresence, Relay
  <2> QED
    BY <1>5, <2>2
       DEF Silent, Refused, Ping, UpdatePresence, Relay, Then, HubTypeOK, queues, tables
<1>6. ASSUME NEW c \in Clients, Reply(c) PROVE HubTypeOK'
  BY <1>6 DEF Reply, HubTypeOK, tables, queues
<1>7. ASSUME NEW c \in Clients, NEW ch \in Channels, Subscribe(c, ch) PROVE HubTypeOK'
  BY <1>7 DEF Subscribe, Then, HubTypeOK, queues
<1>8. ASSUME NEW c \in Clients, NEW ch \in Channels, Unsubscribe(c, ch) PROVE HubTypeOK'
  BY <1>8 DEF Unsubscribe, Then, HubTypeOK, queues
<1>9. ASSUME NEW c \in Clients, NEW ch \in Channels, Notify(c, ch) PROVE HubTypeOK'
  BY <1>9 DEF Notify, HubTypeOK, tables
<1>10. ASSUME NEW c \in Clients, NEW f \in Files, UnlockFile(c, f) PROVE HubTypeOK'
  <2>1. locks' \in [Files -> Locks]
    BY <1>10 DEF UnlockFile, HubTypeOK, Locks
  <2>2. replying' \in [Clients -> BOOLEAN] /\ owed' \in [Clients -> SUBSET Channels]
    <3>1. {ShareChannel(f)} \in SUBSET Channels
      OBVIOUS
    <3> QED
      BY <1>10, <3>1, ThenType DEF UnlockFile
  <2> QED
    BY <1>10, <2>1, <2>2 DEF UnlockFile, Then, HubTypeOK, queues
<1>11. ASSUME NEW c \in Clients, NEW f \in Files, NEW d \in 0..MaxLease,
              LockFile(c, f, d)
       PROVE  HubTypeOK'
  <2>1. {ShareChannel(f)} \in SUBSET Channels
    OBVIOUS
  <2>2. locks' \in [Files -> Locks]
    <3>1. ASSUME locks[f] # NoLock PROVE [by |-> locks[f].by, left |-> d] \in Locks
      BY <3>1 DEF HubTypeOK, Locks
    <3>2. [by |-> c, left |-> d] \in Locks
      BY DEF Locks
    <3> QED
      BY <1>11, <3>1, <3>2 DEF LockFile, Live, HubTypeOK
  <2>3. replying' \in [Clients -> BOOLEAN] /\ owed' \in [Clients -> SUBSET Channels]
    BY <1>11, <2>1, ThenType DEF LockFile
  <2> QED
    BY <1>11, <2>2, <2>3 DEF LockFile, Then, HubTypeOK, queues
<1>12. ASSUME NEW c \in Clients, HubRegister(c) PROVE HubTypeOK'
  BY <1>12 DEF HubRegister, HubTypeOK, handler
<1>13. ASSUME NEW c \in Clients, HubUnregister(c) PROVE HubTypeOK'
  <2>1. CASE c \notin clients
    BY <1>13, <2>1 DEF HubUnregister, InLoop, HubTypeOK, handler
  <2>2. CASE c \in clients
    <3>1. channels' \in [Channels -> SUBSET Clients]
      BY <1>13, <2>2 DEF HubUnregister, HubTypeOK
    <3>2. open' \in [Clients -> BOOLEAN] /\ hub' \in {"loop", "leaving", "stopped"}
      BY <1>13, <2>2 DEF HubUnregister, HubTypeOK
    <3> QED
      BY <1>13, <2>2, <3>1, <3>2 DEF HubUnregister, HubTypeOK, handler
  <2> QED
    BY <2>1, <2>2
<1>14. HubBroadcast => HubTypeOK'
  BY DEF HubBroadcast, HubTypeOK, tables, handler
<1>15. HubTicker => HubTypeOK'
  BY DEF HubTicker, HubTypeOK, Locks, queues, handler
<1>16. HubShutdown => HubTypeOK'
  BY DEF HubShutdown, HubTypeOK, Locks, queues, handler
<1>17. Stop => HubTypeOK'
  BY DEF Stop, HubTypeOK, tables, queues, handler
<1>18. Tick => HubTypeOK'
  <2>1. ASSUME Tick, NEW f \in Files PROVE locks'[f] \in Locks
    BY <2>1 DEF Tick, Live, HubTypeOK, Locks
  <2> QED
    BY <2>1 DEF Tick, HubTypeOK, queues, handler
<1>19. UNCHANGED hubVars => HubTypeOK'
  BY DEF hubVars, HubTypeOK, tables, queues, handler
<1> QED
  BY <1>1, <1>2, <1>3, <1>4, <1>5, <1>6, <1>7, <1>8, <1>9, <1>10, <1>11, <1>12,
     <1>13, <1>14, <1>15, <1>16, <1>17, <1>18, <1>19
     DEF HubNext, ClientStep, HubStep, Silent

\* Every reachable state of the hub, its queues and its connections is well
\* typed, and h.broadcast never holds more than its capacity.
THEOREM HubTypeCorrect == HubSpec => []HubTypeOK
BY HubTypeInit, HubTypeStep, PTL DEF HubSpec

(***************************************************************************)
(* The tables of the hub.                                                  *)
(***************************************************************************)
TableInv == SubscriptionsAgree /\ KnownAreOpen /\ NewAreFresh

LEMMA TableInit == HubInit => TableInv
BY DEF HubInit, TableInv, SubscriptionsAgree, KnownAreOpen, NewAreFresh

\* What TableInv speaks of, left alone.
TablesLeft == UNCHANGED <<clients, channels, subs, open, registering, pump>>

LEMMA TableUntouched == TableInv /\ TablesLeft => TableInv'
BY DEF TableInv, SubscriptionsAgree, KnownAreOpen, NewAreFresh, TablesLeft

LEMMA TableStep == HubTypeOK /\ TableInv /\ [HubNext]_hubVars => TableInv'
<1> SUFFICES ASSUME HubTypeOK, TableInv, [HubNext]_hubVars
             PROVE  TableInv'
  OBVIOUS
<1>1. ASSUME NEW c \in Clients, Connect(c) PROVE TableInv'
  BY <1>1 DEF Connect, tables, HubTypeOK, TableInv, SubscriptionsAgree, KnownAreOpen,
              NewAreFresh
<1>2. ASSUME NEW c \in Clients, Disconnect(c) \/ Leave(c) PROVE TableInv'
  BY <1>2 DEF Disconnect, Leave, Reading, tables, queues, HubTypeOK, TableInv,
              SubscriptionsAgree, KnownAreOpen, NewAreFresh
<1>3. ASSUME NEW c \in Clients,
             Confirm(c) \/ Silent(c) \/ Reply(c) \/ \E ch \in Channels : Notify(c, ch)
      PROVE  TableInv'
  <2>1. TablesLeft
    BY <1>3 DEF Confirm, Silent, Reply, Notify, Refused, Ping, UpdatePresence,
                Relay, Then, TablesLeft, tables, queues, handler
  <2> QED
    BY <2>1, TableUntouched
<1>4. ASSUME NEW c \in Clients, NEW ch \in Channels,
             Subscribe(c, ch) \/ Unsubscribe(c, ch)
      PROVE  TableInv'
  \* a subscriber is known, and so is neither new nor queued
  <2>1. UNCHANGED <<clients, open, registering, pump>>
    BY <1>4 DEF Subscribe, Unsubscribe, Then, queues
  <2>2. c \in clients
    BY <1>4 DEF Subscribe, Unsubscribe
  <2>3. SubscriptionsAgree'
    <3>1. CASE Subscribe(c, ch)
      BY <2>1, <2>2, <3>1 DEF Subscribe, HubTypeOK, TableInv, SubscriptionsAgree
    <3>2. CASE Unsubscribe(c, ch)
      BY <2>1, <2>2, <3>2 DEF Unsubscribe, HubTypeOK, TableInv, SubscriptionsAgree
    <3> QED
      BY <1>4, <3>1, <3>2
  <2>4. NewAreFresh'
    BY <1>4, <2>1, <2>2 DEF Subscribe, Unsubscribe, HubTypeOK, TableInv, NewAreFresh
  <2> QED
    BY <2>1, <2>3, <2>4 DEF TableInv, KnownAreOpen
<1>5. ASSUME NEW c \in Clients, NEW f \in Files,
             UnlockFile(c, f) \/ \E d \in 0..MaxLease : LockFile(c, f, d)
      PROVE  TableInv'
  <2>1. TablesLeft
    BY <1>5 DEF UnlockFile, LockFile, Then, TablesLeft, queues
  <2> QED
    BY <2>1, TableUntouched
<1>6. ASSUME NEW c \in Clients, HubRegister(c) PROVE TableInv'
  BY <1>6 DEF HubRegister, handler, HubTypeOK, TableInv, SubscriptionsAgree,
              KnownAreOpen, NewAreFresh
<1>7. ASSUME NEW c \in Clients, HubUnregister(c) PROVE TableInv'
  <2>1. UNCHANGED <<subs, registering, pump>>
    BY <1>7 DEF HubUnregister, handler
  <2>2. CASE c \notin clients
    <3>1. TablesLeft
      BY <1>7, <2>1, <2>2 DEF HubUnregister, TablesLeft
    <3> QED
      BY <3>1, TableUntouched
  <2>3. CASE c \in clients
    <3>1. clients' = clients \ {c} /\ open' = [open EXCEPT ![c] = FALSE]
      BY <1>7, <2>3 DEF HubUnregister
    <3>2. SubscriptionsAgree'
      BY <1>7, <2>1, <2>3, <3>1 DEF HubUnregister, HubTypeOK, TableInv, SubscriptionsAgree
    <3>3. KnownAreOpen' /\ NewAreFresh'
      BY <2>1, <2>3, <3>1 DEF HubTypeOK, TableInv, KnownAreOpen, NewAreFresh
    <3> QED
      BY <3>2, <3>3 DEF TableInv
  <2> QED
    BY <2>2, <2>3
<1>8. HubShutdown => TableInv'
  BY DEF HubShutdown, queues, handler, HubTypeOK, TableInv, SubscriptionsAgree,
         KnownAreOpen, NewAreFresh
<1>9. HubBroadcast \/ HubTicker \/ Stop \/ Tick \/ UNCHANGED hubVars => TablesLeft
  BY DEF HubBroadcast, HubTicker, Stop, Tick, hubVars, TablesLeft, tables, queues, handler
<1> QED
  BY <1>1, <1>2, <1>3, <1>4, <1>5, <1>6, <1>7, <1>8, <1>9, TableUntouched
     DEF HubNext, ClientStep, HubStep, Silent

LEMMA HubInvariance == HubSpec => []HubInv
<1>1. HubInit => HubInv
  BY HubTypeInit, TableInit DEF HubInv, TableInv
<1>2. HubInv /\ [HubNext]_hubVars => HubInv'
  BY HubTypeStep, TableStep DEF HubInv, TableInv
<1> QED
  BY <1>1, <1>2, PTL DEF HubSpec

\* A channel lists exactly the known clients that are subscribed to it, and the
\* hub never sends to, nor closes, a Send channel that is closed already, in every
\* interleaving of registrations, departures and subscriptions.
THEOREM HubTablesAgree == HubSpec => []TablesAgree
<1>1. HubInv => TablesAgree
  BY DEF HubInv, TablesAgree
<1> QED
  BY <1>1, HubInvariance, PTL

(***************************************************************************)
(* The lock table implements FileLease.                                    *)
(***************************************************************************)

LEMMA LeaseInit == HubInit => Lease!Init
BY DEF HubInit, Lease!Init, holderOf, Live

\* A step that may only free files, or leaves the table alone.
OnlyFrees == \A f \in Files : \/ holderOf'[f] = holderOf[f]
                              \/ holderOf'[f] = Nobody

LEMMA FreeStep == OnlyFrees => Lease!Next
<1> SUFFICES ASSUME OnlyFrees PROVE Lease!Next
  OBVIOUS
<1> DEFINE F == {f \in Files : holderOf'[f] = Nobody}
<1>1. F \in SUBSET Files
  OBVIOUS
<1>2. holderOf' = [f \in Files |-> IF f \in F THEN Nobody ELSE holderOf[f]]
  <2>1. holderOf' = [f \in Files |-> holderOf'[f]]
    BY DEF holderOf
  <2> QED
    BY <2>1 DEF OnlyFrees
<1>3. Lease!Free(F)
  BY <1>2 DEF Lease!Free
<1> QED
  BY <1>1, <1>3 DEF Lease!Next

LEMMA LockStep ==
  ASSUME HubTypeOK, NEW c \in Clients, NEW f \in Files, NEW d \in 0..MaxLease,
         LockFile(c, f, d)
  PROVE  Lease!Next
<1>1. CASE locks' = locks
  BY <1>1, FreeStep DEF OnlyFrees, holderOf, Live
<1>2. CASE ~Live(f) /\ locks' = [locks EXCEPT ![f] = [by |-> c, left |-> d]]
  <2>1. holderOf[f] = Nobody
    BY <1>2 DEF holderOf
  <2>2. holderOf' = [holderOf EXCEPT ![f] = IF Live(f)' THEN UserOf(c) ELSE Nobody]
    BY <1>2 DEF holderOf, Live, HubTypeOK
  <2>3. CASE Live(f)'
    <3>1. Lease!Take(f, UserOf(c))
      BY <2>1, <2>2, <2>3 DEF Lease!Take
    <3> QED
      BY <3>1 DEF Lease!Next
  <2>4. CASE ~Live(f)'
    BY <2>1, <2>2, <2>4, FreeStep DEF OnlyFrees, holderOf
  <2> QED
    BY <2>3, <2>4
<1>3. CASE Live(f) /\ locks' = [locks EXCEPT ![f] = [by |-> locks[f].by, left |-> d]]
  \* the entry keeps its owner
  BY <1>3, FreeStep DEF OnlyFrees, holderOf, Live, HubTypeOK
<1> QED
  BY <1>1, <1>2, <1>3 DEF LockFile

LEMMA LeaseStep == HubTypeOK /\ [HubNext]_hubVars => [Lease!Next]_holderOf
<1> SUFFICES ASSUME HubTypeOK, [HubNext]_hubVars PROVE Lease!Next
  OBVIOUS
<1>1. ASSUME UNCHANGED locks PROVE OnlyFrees
  BY <1>1 DEF OnlyFrees, holderOf, Live
<1>2. ASSUME NEW c \in Clients, NEW f \in Files, UnlockFile(c, f) PROVE OnlyFrees
  BY <1>2 DEF UnlockFile, OnlyFrees, holderOf, Live, HubTypeOK
<1>3. HubTicker \/ HubShutdown => OnlyFrees
  BY DEF HubTicker, HubShutdown, OnlyFrees, holderOf, Live
<1>4. Tick => OnlyFrees
  BY DEF Tick, OnlyFrees, holderOf, Live
<1>5. ASSUME NEW c \in Clients, NEW ch \in Channels,
             Relay(c, ch) \/ Subscribe(c, ch) \/ Unsubscribe(c, ch) \/ Notify(c, ch)
      PROVE  UNCHANGED locks
  BY <1>5 DEF Relay, Subscribe, Unsubscribe, Notify, tables
<1>6. ASSUME NEW c \in Clients,
             \/ Connect(c) \/ Confirm(c) \/ Disconnect(c) \/ Leave(c) \/ Refused(c)
             \/ Ping(c) \/ UpdatePresence(c) \/ Reply(c) \/ HubRegister(c)
             \/ HubUnregister(c)
      PROVE  UNCHANGED locks
  BY <1>6 DEF Connect, Confirm, Disconnect, Leave, Refused, Ping, UpdatePresence,
              Reply, HubRegister, HubUnregister, tables
<1>7. HubBroadcast \/ Stop \/ UNCHANGED hubVars => UNCHANGED locks
  BY DEF HubBroadcast, Stop, hubVars, tables
<1> QED
  BY <1>1, <1>2, <1>3, <1>4, <1>5, <1>6, <1>7, FreeStep, LockStep
     DEF HubNext, ClientStep, HubStep

\* No step of the hub takes a file from the user who holds it and hands it to
\* another: the lock table implements FileLease.
THEOREM LocksAreLeases == HubSpec => ImplementsFileLease
<1>1. [](HubTypeOK) /\ [][HubNext]_hubVars => [][Lease!Next]_holderOf
  BY LeaseStep, PTL
<1> QED
  BY <1>1, LeaseInit, HubTypeCorrect, PTL DEF HubSpec, ImplementsFileLease, Lease!Spec
==============================================================================
