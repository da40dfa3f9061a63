---------------------------- MODULE EncryptionKeys ----------------------------
(***************************************************************************)
(* The keys of encrypted synchronisation (pkg/sync/crypto KeyManager) and  *)
(* the requests for them (internal/server/encryption_handler.go).  A       *)
(* master key encrypts the key of every share.  master.key holds it under  *)
(* a password, recovery.key holds it under a recovery key.                 *)
(*                                                                         *)
(* Every operation of the manager has its mutex from end to end; a request *)
(* looks at isUnlocked before, and sets it after, and may do two of them.  *)
(* Files are written in place: a write that fails, or is cut off by a      *)
(* stop, leaves the file as it was, torn, or written after all.            *)
(*                                                                         *)
(* Nothing encrypts a file yet, nor makes keys for devices, so file keys   *)
(* and device keys are left out, as are settings and algorithms.           *)
(***************************************************************************)
EXTENDS Naturals

CONSTANTS Requests,    \* goroutines
          Passwords, Shares,
          MaxMade,     \* recovery keys ever made (bound)
          MaxFaults,   \* writes that fail (bound)
          MaxRestarts  \* (bound)

ASSUME EncryptionAssumption == MaxMade \in Nat /\ MaxFaults \in Nat /\ MaxRestarts \in Nat

VARIABLES
  masterKey, \* KeyManager.masterKey
  unlocked,  \* EncryptionHandler.isUnlocked
  master,    \* master.key
  recovery,  \* recovery.key
  share,     \* the file of each share's key
  shareKeys, \* KeyManager.shareKeys
  request,   \* the request of each goroutine
  made, faults, restarts,
  answered,  \* history: the recovery key answered last
  events     \* history: what has happened that properties make an exception for

manager == <<masterKey, unlocked, shareKeys>>
files == <<master, recovery, share>>
bounds == <<made, faults, restarts>>
history == <<answered, events>>
vars == <<manager, files, request, bounds, history>>

\* What masterKey may be: nil, what the password was turned into, and the key.
Keys == {"nil", "derived", "master"}

NoFile == [is |-> "none"]
Torn == [is |-> "torn"]
MasterFiles == {NoFile, Torn} \cup [is : {"whole"}, under : Passwords, key : Keys]
RecoveryFiles == {NoFile, Torn} \cup [is : {"whole"}, under : 1..MaxMade, key : Keys]
ShareFiles == {NoFile, Torn} \cup [is : {"whole"}, key : Keys]

Idle == [op |-> "none"]
Opening(op, p) == [op |-> op, at |-> "load", password |-> p, made |-> 0]
Entries ==
  {Idle}
  \cup [op : {"initialize"}, at : {"load", "make", "open"}, password : Passwords, made : 0..MaxMade]
  \cup [op : {"unlock"}, at : {"load", "open"}, password : Passwords, made : 0..MaxMade]
  \cup [op : {"recover"}, at : {"recover", "open"}, with : 0..MaxMade]
  \cup [op : {"change"}, at : {"change"}, old : Passwords, new : Passwords]
  \cup [op : {"recovery"}, at : {"make", "answer"}, made : 0..MaxMade]
  \cup [op : {"share"}, at : {"share"}, share : Shares]

TypeOK ==
  /\ masterKey \in Keys /\ unlocked \in BOOLEAN /\ shareKeys \subseteq Shares
  /\ master \in MasterFiles /\ recovery \in RecoveryFiles /\ share \in [Shares -> ShareFiles]
  /\ request \in [Requests -> Entries]
  /\ made \in 0..MaxMade /\ faults \in 0..MaxFaults /\ restarts \in 0..MaxRestarts
  /\ answered \in 0..MaxMade
  /\ events \subseteq {"wrong key", "two made at once", "not answered"}

Init ==
  /\ masterKey = "nil" /\ unlocked = FALSE /\ shareKeys = {}
  /\ master = NoFile /\ recovery = NoFile /\ share = [s \in Shares |-> NoFile]
  /\ request = [c \in Requests |-> Idle]
  /\ made = 0 /\ faults = 0 /\ restarts = 0
  /\ answered = 0 /\ events = {}

Continue(c, r) == request' = [request EXCEPT ![c] = r]
End(c) == Continue(c, Idle)
At(c, step) == request[c].op # "none" /\ request[c].at = step

\* Writes "new" over file "old" into new file "f".
Writes(f, old, new) == f = new /\ UNCHANGED faults
WriteFails(f, old, new) ==
  /\ faults < MaxFaults /\ faults' = faults + 1
  /\ f \in {old, Torn, new}

------------------------------------------------------------------------------
(* Requests arrive; those that need encryption unlocked are let through or not *)
(* at that moment.                                                             *)

Initialize(c, p) == Continue(c, Opening("initialize", p))
Unlock(c, p) == Continue(c, Opening("unlock", p))
RecoverWith(c, k) == Continue(c, [op |-> "recover", at |-> "recover", with |-> k])
ChangePassword(c, p, q) == unlocked /\ Continue(c, [op |-> "change", at |-> "change", old |-> p, new |-> q])
NewRecoveryKey(c) == unlocked /\ Continue(c, [op |-> "recovery", at |-> "make", made |-> 0])
ShareKey(c, s) == unlocked /\ Continue(c, [op |-> "share", at |-> "share", share |-> s])

Arrive(c) ==
  /\ request[c] = Idle
  /\ \/ \E p \in Passwords : Initialize(c, p) \/ Unlock(c, p) \/ \E q \in Passwords : ChangePassword(c, p, q)
     \/ \E k \in 0..made : RecoverWith(c, k)
     \/ NewRecoveryKey(c)
     \/ \E s \in Shares : ShareKey(c, s)
  /\ UNCHANGED <<manager, files, bounds, history>>

\* Mutant: it drops the master key.
Lock_Forgets ==
  /\ unlocked /\ unlocked' = FALSE
  /\ masterKey' = "nil"
  /\ UNCHANGED <<shareKeys, files, request, bounds, history>>

\* It keeps the keys in memory.
Lock ==
  /\ unlocked /\ unlocked' = FALSE
  /\ UNCHANGED <<masterKey, shareKeys, files, request, bounds, history>>

------------------------------------------------------------------------------
(* InitializeMasterKey.  A key that cannot be had leaves masterKey nil, one     *)
(* that cannot be saved leaves there what the password was turned into.         *)

Loaded(c) == Continue(c, [request[c] EXCEPT !.at = IF request[c].op = "initialize" THEN "make" ELSE "open"])

GenerateMaster(c) ==
  /\ At(c, "load") /\ master = NoFile
  /\ LET new == [is |-> "whole", under |-> request[c].password, key |-> "master"]
     IN  \/ Writes(master', master, new) /\ masterKey' = "master" /\ Loaded(c)
         \/ WriteFails(master', master, new) /\ masterKey' = "derived" /\ End(c)
  /\ UNCHANGED <<unlocked, shareKeys, recovery, share, made, restarts, history>>

Unparsed(c) == End(c)

\* Mutant: what the password was turned into stays.
Undecrypted_Derived == "derived"

\* What a decryption that fails leaves.
Undecrypted == "nil"

WrongKey == masterKey' = Undecrypted /\ events' = events \cup {"wrong key"}

LoadMaster(c) ==
  /\ At(c, "load") /\ master # NoFile
  /\ \/ master = Torn /\ Unparsed(c) /\ UNCHANGED <<masterKey, events>>
     \/ master # Torn /\ master.under = request[c].password
        /\ masterKey' = master.key /\ Loaded(c) /\ UNCHANGED events
     \/ master # Torn /\ master.under # request[c].password /\ WrongKey /\ End(c)
  /\ UNCHANGED <<unlocked, shareKeys, files, bounds, answered>>

------------------------------------------------------------------------------
(* GenerateRecoveryKey, which makes the one before useless.                    *)

MakingFails(c) ==
  /\ At(c, "make") /\ masterKey = "nil"
  /\ End(c)
  /\ UNCHANGED <<manager, files, bounds, history>>

Unanswered == {c \in Requests : request[c].op \in {"initialize", "recovery"} /\ request[c].made # 0}

\* Mutant: the first one stays.
NewRecovery_KeepsFirst == IF recovery = NoFile THEN [is |-> "whole", under |-> made + 1, key |-> masterKey] ELSE recovery

NewRecovery == [is |-> "whole", under |-> made + 1, key |-> masterKey]

MakeRecovery(c) ==
  /\ At(c, "make") /\ masterKey # "nil"
  /\ made < MaxMade /\ made' = made + 1
  /\ \/ /\ Writes(recovery', recovery, NewRecovery)
        /\ Continue(c, [request[c] EXCEPT !.at = IF request[c].op = "initialize" THEN "open" ELSE "answer", !.made = made'])
        /\ events' = events \cup IF Unanswered # {} THEN {"two made at once"} ELSE {}
     \/ /\ WriteFails(recovery', recovery, NewRecovery) /\ End(c)
        /\ events' = events \cup {"not answered"}
  /\ UNCHANGED <<manager, master, share, restarts, answered>>

Answer(c) ==
  /\ At(c, "answer")
  /\ answered' = request[c].made /\ End(c)
  /\ UNCHANGED <<manager, files, bounds, events>>

\* The end of an initialisation, which answers with the recovery key, and of the others.
OpenUp(c) ==
  /\ At(c, "open")
  /\ unlocked' = TRUE
  /\ answered' = IF request[c].op = "initialize" THEN request[c].made ELSE answered
  /\ End(c)
  /\ UNCHANGED <<masterKey, shareKeys, files, bounds, events>>

------------------------------------------------------------------------------

Recover(c) ==
  /\ At(c, "recover")
  /\ \/ recovery \in {NoFile, Torn} /\ End(c) /\ UNCHANGED <<masterKey, events>>
     \/ recovery \notin {NoFile, Torn} /\ recovery.under = request[c].with
        /\ masterKey' = recovery.key /\ Continue(c, [request[c] EXCEPT !.at = "open"]) /\ UNCHANGED events
     \/ recovery \notin {NoFile, Torn} /\ recovery.under # request[c].with /\ WrongKey /\ End(c)
  /\ UNCHANGED <<unlocked, shareKeys, files, bounds, answered>>

\* It checks the old password with the file but saves the key it has in memory.
Rewrap(c) ==
  /\ At(c, "change")
  /\ End(c)
  /\ IF master \notin {NoFile, Torn} /\ master.under = request[c].old
     THEN LET new == [is |-> "whole", under |-> request[c].new, key |-> masterKey]
          IN  Writes(master', master, new) \/ WriteFails(master', master, new)
     ELSE UNCHANGED <<master, faults>>
  /\ UNCHANGED <<manager, recovery, share, made, restarts, history>>

\* GenerateShareKey: the first key of a share and every later one.
GenerateShareKey(c) ==
  /\ At(c, "share")
  /\ End(c)
  /\ LET s == request[c].share
         new == [is |-> "whole", key |-> masterKey]
     IN  \/ masterKey = "nil" /\ UNCHANGED <<share, shareKeys, faults>>
         \/ /\ masterKey # "nil" /\ \E f \in {share[s], Torn, new} :
                /\ share' = [share EXCEPT ![s] = f]
                /\ \/ Writes(f, share[s], new) /\ shareKeys' = shareKeys \cup {s}
                   \/ WriteFails(f, share[s], new) /\ UNCHANGED shareKeys
  /\ UNCHANGED <<masterKey, unlocked, master, recovery, made, restarts, history>>

\* nosd stops and starts.
Restart ==
  /\ restarts < MaxRestarts /\ restarts' = restarts + 1
  /\ masterKey' = "nil" /\ unlocked' = FALSE /\ shareKeys' = {}
  /\ request' = [c \in Requests |-> Idle]
  /\ events' = events \cup IF Unanswered # {} THEN {"not answered"} ELSE {}
  /\ UNCHANGED <<files, made, faults, answered>>

Step(c) ==
  \/ GenerateMaster(c) \/ LoadMaster(c) \/ MakingFails(c) \/ MakeRecovery(c) \/ Answer(c) \/ OpenUp(c)
  \/ Recover(c) \/ Rewrap(c) \/ GenerateShareKey(c)

Next == Lock \/ Restart \/ \E c \in Requests : Arrive(c) \/ Step(c)

Spec == Init /\ [][Next]_vars

------------------------------------------------------------------------------

\* What a failed attempt leaves in memory in place of the key never gets into a
\* file: whatever the recovery key or a key of a share opens with is the one
\* master key (InitializeMasterKey, GenerateRecoveryKey, GenerateShareKey).
OnlyMaster ==
  /\ recovery.is = "whole" => recovery.key = "master"
  /\ \A s \in Shares : share[s].is = "whole" => share[s].key = "master"
  /\ master.is = "whole" => master.key # "derived"

\* master.key holds an empty key only after a wrong password or recovery key was
\* tried, at any time: it is that attempt that takes the key out of memory.
PasswordKeepsKey == master.is = "whole" /\ master.key = "nil" => "wrong key" \in events

\* While encryption is unlocked the key is there, unless a wrong one was tried:
\* requests set isUnlocked after they have let go of the mutex.
UnlockedHasKey == unlocked => masterKey = "master" \/ "wrong key" \in events

\* The recovery key that was answered last is the one that recovers, once nobody
\* makes another, unless two were made at once or one was never answered.
AnsweredKeyRecovers ==
  recovery.is = "whole" /\ Unanswered = {} /\ events \cap {"two made at once", "not answered"} = {} =>
    recovery.under = answered
==============================================================================
