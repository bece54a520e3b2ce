--------------------------- MODULE EncryptionKey ---------------------------
(***************************************************************************)
(* get_encryption_key (_sdk/_utils.py) and its two callers,                *)
(* encrypt_secret_value and decrypt_secret_value: processes share one key  *)
(* in the system's keyring, each caches it in a global, and the first one  *)
(* that finds none generates it under a file lock.                         *)
(*                                                                         *)
(* A key is named for the call that generates it.  Looking into the        *)
(* keyring, locking the file and saving a key may raise.  A process may    *)
(* end at any point, which frees its lock and its cache, and be started    *)
(* again.  A customized key, which nothing at this commit sets, is left    *)
(* out.                                                                    *)
(***************************************************************************)
EXTENDS LocalStore, Naturals, FiniteSets

CONSTANT MaxCalls \* calls a process makes, over all its restarts

ASSUME KeyAssumption ==
  MaxCalls \in Nat /\ None \notin Processes \X (1 .. MaxCalls)

VARIABLES
  keyPc,    \* where each process is in get_encryption_key
  generate, \* generate_if_not_found of its call
  calls,    \* how many calls it has made
  cached,   \* ENCRYPTION_KEY_IN_KEY_RING of each process
  keyring,  \* the key in the keyring
  keyLock,  \* the holder of _encryption_key_lock
  unsaved,  \* keys whose saving has raised
  stranded, \* processes whose second look ended their call with the lock still held
  secrets   \* the keys that stored secrets were encrypted with

keyVars == <<keyPc, generate, calls, cached, keyring, keyLock, unsaved, stranded, secrets>>

Keys == (Processes \X (1 .. MaxCalls)) \cup {None}
KeyPlaces == {"idle", "read", "acquire", "reread", "generate", "save", "return"}

KeyInit ==
  /\ keyPc = [p \in Processes |-> "idle"]
  /\ generate = [p \in Processes |-> FALSE]
  /\ calls = [p \in Processes |-> 0]
  /\ cached = [p \in Processes |-> None]
  /\ keyring = None
  /\ keyLock = None
  /\ unsaved = {}
  /\ stranded = {}
  /\ secrets = {}

KeyGoto(p, place) == keyPc' = [keyPc EXCEPT ![p] = place]

-----------------------------------------------------------------------------
\* encrypt_secret_value asks to generate a key, decrypt_secret_value does not.
Call(p, g) ==
  /\ keyPc[p] = "idle"
  /\ calls[p] < MaxCalls
  /\ calls' = [calls EXCEPT ![p] = @ + 1]
  /\ generate' = [generate EXCEPT ![p] = g]
  /\ KeyGoto(p, IF cached[p] # None THEN "return" ELSE "read")
  /\ UNCHANGED <<cached, keyring, keyLock, unsaved, stranded, secrets>>

\* The first look into the keyring, without the lock.
ReadKeyring(p) ==
  /\ keyPc[p] = "read"
  /\ cached' = [cached EXCEPT ![p] = keyring]
  /\ KeyGoto(p, IF keyring = None /\ generate[p] THEN "acquire" ELSE "return")
  /\ UNCHANGED <<generate, calls, keyring, keyLock, unsaved, stranded, secrets>>

\* The keyring cannot be asked at all, or the lock file not opened: the call raises, and
\* nothing is cached or held.
CallRaises(p) ==
  /\ keyPc[p] \in {"read", "acquire"}
  /\ KeyGoto(p, "idle")
  /\ UNCHANGED <<generate, calls, cached, keyring, keyLock, unsaved, stranded, secrets>>

\* A FileLock counts the times its process has acquired it.  (Mutant: no lock.)
MutantKeyLockFree(p) == TRUE
KeyLockFree(p) == keyLock \in {None, p}

AcquireKeyLock(p) ==
  /\ keyPc[p] = "acquire"
  /\ KeyLockFree(p)
  /\ keyLock' = p
  /\ KeyGoto(p, "reread")
  /\ UNCHANGED <<generate, calls, cached, keyring, unsaved, stranded, secrets>>

\* The keyring again, under the lock.
SecondLook == keyring

\* A key that has come meanwhile is returned, and the lock is kept.
RereadKeyring(p) ==
  /\ keyPc[p] = "reread"
  /\ cached' = [cached EXCEPT ![p] = SecondLook]
  /\ stranded' = IF SecondLook = None THEN stranded ELSE stranded \cup {p}
  /\ KeyGoto(p, IF SecondLook = None THEN "generate" ELSE "return")
  /\ UNCHANGED <<generate, calls, keyring, keyLock, unsaved, secrets>>

\* The second look raises, before the try whose finally would free the lock.
RereadRaises(p) ==
  /\ keyPc[p] = "reread"
  /\ stranded' = stranded \cup {p}
  /\ KeyGoto(p, "idle")
  /\ UNCHANGED <<generate, calls, cached, keyring, keyLock, unsaved, secrets>>

\* A fresh key: no other process and no other call generates it.
NewKey(p) == <<p, calls[p]>>

\* The new key is cached before it is saved.
GenerateKey(p) ==
  /\ keyPc[p] = "generate"
  /\ cached' = [cached EXCEPT ![p] = NewKey(p)]
  /\ KeyGoto(p, "save")
  /\ UNCHANGED <<generate, calls, keyring, keyLock, unsaved, stranded, secrets>>

\* The finally block takes back one acquisition, which is not the last one if an earlier
\* call left the lock held.  (Mutant: the lock is kept.)
MutantReleased(p) == keyLock
Released(p) == IF p \in stranded THEN keyLock ELSE None

SaveKey(p) ==
  /\ keyPc[p] = "save"
  /\ keyring' = cached[p]
  /\ keyLock' = Released(p)
  /\ KeyGoto(p, "return")
  /\ UNCHANGED <<generate, calls, cached, unsaved, stranded, secrets>>

\* set_password raises, and so does the call; the key stays cached.
SaveRaises(p) ==
  /\ keyPc[p] = "save"
  /\ unsaved' = unsaved \cup {cached[p]}
  /\ keyLock' = Released(p)
  /\ KeyGoto(p, "idle")
  /\ UNCHANGED <<generate, calls, cached, keyring, stranded, secrets>>

\* encrypt_secret_value stores a secret; decrypt_secret_value changes nothing, and
\* raises if there is no key.
Return(p) ==
  /\ keyPc[p] = "return"
  /\ secrets' = IF generate[p] THEN secrets \cup {cached[p]} ELSE secrets
  /\ KeyGoto(p, "idle")
  /\ UNCHANGED <<generate, calls, cached, keyring, keyLock, unsaved, stranded>>

\* The process ends, between its calls or within one.
EndProcess(p) ==
  /\ cached[p] # None \/ keyPc[p] # "idle"
  /\ cached' = [cached EXCEPT ![p] = None]
  /\ keyLock' = IF keyLock = p THEN None ELSE keyLock
  /\ stranded' = stranded \ {p}
  /\ KeyGoto(p, "idle")
  /\ UNCHANGED <<generate, calls, keyring, unsaved, secrets>>

KeyStep(p) ==
  \/ ReadKeyring(p) \/ AcquireKeyLock(p) \/ RereadKeyring(p) \/ GenerateKey(p)
  \/ SaveKey(p) \/ SaveRaises(p) \/ Return(p)

KeyNext ==
  \E p \in Processes :
    \/ \E g \in BOOLEAN : Call(p, g)
    \/ KeyStep(p)
    \/ CallRaises(p) \/ RereadRaises(p)
    \/ EndProcess(p)

KeySpec == KeyInit /\ [][KeyNext]_keyVars

\* Processes are scheduled.  The lock is polled; with a bounded number of calls no
\* process waits behind others for ever.  Nobody relies on a call to raise.
KeyFairness == \A p \in Processes : WF_keyVars(KeyStep(p))

FairKeySpec == KeySpec /\ KeyFairness

-----------------------------------------------------------------------------
(* Properties *)

\* Every variable has its type.
KeyTypeOK ==
  /\ keyPc \in [Processes -> KeyPlaces]
  /\ generate \in [Processes -> BOOLEAN]
  /\ calls \in [Processes -> 0 .. MaxCalls]
  /\ cached \in [Processes -> Keys]
  /\ keyring \in Keys
  /\ keyLock \in Processes \cup {None}
  /\ unsaved \subseteq Keys
  /\ stranded \subseteq Processes
  /\ secrets \subseteq Keys

\* The key in the keyring is never replaced, though any number of processes find
\* none at first: a replaced key would leave every stored secret unreadable.
KeyIsKept == [][keyring # None => keyring' = keyring]_keyVars

\* A stored secret can be read by every process: it was encrypted with the key in the
\* keyring, unless its process went on after it could not save the key.
SecretsReadable == \A k \in secrets : k = keyring \/ k \in unsaved

\* The process that has the lock left get_encryption_key at its second look: it found
\* another process's key, or the keyring raised.
LockLeft == keyLock \in stranded

\* A call gets past the lock whoever fails or ends while it waits, but for the two exits
\* from the second look on which the code keeps the lock as long as the process lives.
CallGetsThrough ==
  \A p \in Processes : keyPc[p] = "acquire" ~> keyPc[p] # "acquire" \/ LockLeft
=============================================================================
