------------------------------ MODULE StateRoot ------------------------------
(* What the brokers of one state root share besides the records: the signing *)
(* key (StateSigner) and the audit log (AuditLog).  Each broker opens both,  *)
(* in a process of its own or not; the threads of a broker append to its     *)
(* AuditLog, which has a lock among them and none among brokers.             *)
(*                                                                           *)
(* The log is the sequence of what single appends left in the file.  A row's *)
(* hash is named by the row's number, 0 being ZERO_HASH.                     *)
EXTENDS Naturals, Sequences

CONSTANTS
    Broker, Thread,
    Owner,    \* [Thread -> Broker]
    Key,      \* what urandom may return, each value once
    NoKey,    \* an empty key file
    NoFile,   \* no key file
    Nobody,   \* no thread
    MaxRows   \* bound on the rows of the log

ASSUME OwnerAssumption == Owner \in [Thread -> Broker] /\ Nobody \notin Thread
ASSUME KeyAssumption == NoKey \notin Key /\ NoFile \notin Key /\ NoKey # NoFile
ASSUME MaxRowsAssumption == MaxRows \in Nat

VARIABLES
    keyFile,  \* secret.key
    drawn,    \* the keys made so far
    held,     \* [Broker -> its key]
    broker,   \* [Broker -> how far it is with opening the state root]
    log,      \* audit.jsonl
    holder,   \* [Broker -> the thread in the lock of its AuditLog]
    thread,   \* [Thread -> where its append is]
    seen,     \* [Thread -> the last hash it verified, then its own]
    acked,    \* the hashes that append has returned
    keyLost,  \* history: an error has cut the making of a key short
    overlap,  \* history: two brokers have been appending at once
    cut       \* history: how writes to the log were cut short

keys == <<keyFile, drawn, held>>
appends == <<log, holder, thread, seen, acked>>
vars == <<keys, broker, appends, keyLost, overlap, cut>>

Init ==
    /\ keyFile = NoFile /\ drawn = {} /\ held = [b \in Broker |-> NoKey]
    /\ broker = [b \in Broker |-> "closed"]
    /\ log = <<>> /\ acked = {}
    /\ holder = [b \in Broker |-> Nobody]
    /\ thread = [t \in Thread |-> "idle"]
    /\ seen = [t \in Thread |-> 0]
    /\ keyLost = FALSE /\ overlap = FALSE /\ cut = {}

----------------------------------------------------------------------------
(* StateSigner: the first broker makes the key, the others read it.          *)

\* Mutant: the key file is opened without O_EXCL.
CreateKeyShared(b) ==
    /\ broker[b] = "closed"
    /\ \E k \in Key \ drawn :
           drawn' = drawn \cup {k} /\ held' = [held EXCEPT ![b] = k]
    /\ keyFile' = IF keyFile = NoFile THEN NoKey ELSE keyFile
    /\ broker' = [broker EXCEPT ![b] = "key"]
    /\ UNCHANGED <<appends, keyLost, overlap, cut>>

CreateKey(b) ==
    /\ broker[b] = "closed" /\ keyFile = NoFile
    /\ \E k \in Key \ drawn :
           drawn' = drawn \cup {k} /\ held' = [held EXCEPT ![b] = k]
    /\ keyFile' = NoKey
    /\ broker' = [broker EXCEPT ![b] = "key"]
    /\ UNCHANGED <<appends, keyLost, overlap, cut>>

\* The bytes are in the file before fsync returns.
WriteKey(b) ==
    /\ broker[b] = "key"
    /\ keyFile' = held[b]
    /\ broker' = [broker EXCEPT ![b] = "sync"]
    /\ UNCHANGED <<drawn, held, appends, keyLost, overlap, cut>>

SyncKey(b) ==
    /\ broker[b] = "sync"
    /\ broker' = [broker EXCEPT ![b] = "log"]
    /\ UNCHANGED <<keys, appends, keyLost, overlap, cut>>

\* write or fsync raises: the file is removed, whoever has read it.
KeyFails(b) ==
    /\ broker[b] \in {"key", "sync"}
    /\ keyFile' = NoFile /\ keyLost' = TRUE
    /\ broker' = [broker EXCEPT ![b] = "closed"]
    /\ UNCHANGED <<drawn, held, appends, overlap, cut>>

\* Mutant: the length of the key is not checked.
LoadKeyUnchecked(b) ==
    /\ broker[b] = "closed" /\ keyFile # NoFile
    /\ held' = [held EXCEPT ![b] = keyFile]
    /\ broker' = [broker EXCEPT ![b] = "log"]
    /\ UNCHANGED <<keyFile, drawn, appends, keyLost, overlap, cut>>

\* A key that is not 32 bytes long is refused.
LoadKey(b) ==
    /\ broker[b] = "closed" /\ keyFile \in Key
    /\ held' = [held EXCEPT ![b] = keyFile]
    /\ broker' = [broker EXCEPT ![b] = "log"]
    /\ UNCHANGED <<keyFile, drawn, appends, keyLost, overlap, cut>>

----------------------------------------------------------------------------
(* AuditLog.                                                                 *)

Chained(n) == log[n].previous = n - 1

\* Mutant: a last line that is no JSON is passed over.
VerifiesButLast(k) ==
    \A n \in DOMAIN log :
        n = Len(log) \/ (log[n].form = "line" /\ Chained(n) /\ log[n].key = k)

\* Mutant: the signatures are not compared.
VerifiesUnsigned(k) ==
    \A n \in DOMAIN log :
        /\ log[n].form = "line" \/ (log[n].form = "bare" /\ n = Len(log))
        /\ Chained(n)

\* _verify_unlocked: every line is a row, hashed on top of the one before and
\* signed with the broker's key.  The end of the last line may be missing.
Verifies(k) ==
    \A n \in DOMAIN log :
        /\ log[n].form = "line" \/ (log[n].form = "bare" /\ n = Len(log))
        /\ Chained(n) /\ log[n].key = k

OpenLog(b) ==
    /\ broker[b] = "log"
    /\ broker' = [broker EXCEPT ![b] = IF Verifies(held[b]) THEN "open"
                                       ELSE "closed"]
    /\ UNCHANGED <<keys, appends, keyLost, overlap, cut>>

Appending(b) == holder[b] # Nobody

\* Mutant: append does not take the lock.
AppendVerifyUnlocked(t) ==
    LET b == Owner[t] IN
    /\ thread[t] = "idle" /\ broker[b] = "open" /\ Verifies(held[b])
    /\ holder' = [holder EXCEPT ![b] = t]
    /\ thread' = [thread EXCEPT ![t] = "write"]
    /\ seen' = [seen EXCEPT ![t] = Len(log)]
    /\ overlap' = (overlap \/ \E c \in Broker \ {b} : Appending(c))
    /\ UNCHANGED <<keys, broker, log, acked, keyLost, cut>>

\* append takes the lock and verifies; it raises if that fails.
AppendVerify(t) ==
    LET b == Owner[t] IN
    /\ thread[t] = "idle" /\ broker[b] = "open" /\ ~Appending(b)
    /\ Verifies(held[b])
    /\ holder' = [holder EXCEPT ![b] = t]
    /\ thread' = [thread EXCEPT ![t] = "write"]
    /\ seen' = [seen EXCEPT ![t] = Len(log)]
    /\ overlap' = (overlap \/ \E c \in Broker \ {b} : Appending(c))
    /\ UNCHANGED <<keys, broker, log, acked, keyLost, cut>>

Write(t, form) ==
    /\ thread[t] = "write" /\ Len(log) < MaxRows
    /\ log' = Append(log, [previous |-> seen[t], key |-> held[Owner[t]],
                           form |-> form])

Leave(t) ==
    /\ thread' = [thread EXCEPT ![t] = "idle"]
    /\ holder' = [holder EXCEPT ![Owner[t]] = Nobody]

AppendWrite(t) ==
    /\ Write(t, "line")
    /\ thread' = [thread EXCEPT ![t] = "sync"]
    /\ seen' = [seen EXCEPT ![t] = Len(log) + 1]
    /\ UNCHANGED <<keys, broker, holder, acked, keyLost, overlap, cut>>

\* The disk is full: part of the row is in the file, or all but its newline.
AppendCut(t) ==
    /\ \E form \in {"torn", "bare"} : Write(t, form) /\ cut' = cut \cup {form}
    /\ Leave(t)
    /\ UNCHANGED <<keys, broker, seen, acked, keyLost, overlap>>

AppendReturn(t) ==
    /\ thread[t] = "sync"
    /\ acked' = acked \cup {seen[t]}
    /\ Leave(t)
    /\ UNCHANGED <<keys, broker, log, seen, keyLost, overlap, cut>>

\* Nothing is written, or fsync raises after the whole line is.
AppendFails(t) ==
    /\ thread[t] \in {"write", "sync"}
    /\ Leave(t)
    /\ UNCHANGED <<keys, broker, log, seen, acked, keyLost, overlap, cut>>

\* The process of a broker ends, wherever it is.
Stop(b) ==
    /\ broker[b] # "closed"
    /\ broker' = [broker EXCEPT ![b] = "closed"]
    /\ holder' = [holder EXCEPT ![b] = Nobody]
    /\ thread' = [t \in Thread |-> IF Owner[t] = b THEN "idle" ELSE thread[t]]
    /\ UNCHANGED <<keys, log, seen, acked, keyLost, overlap, cut>>

Next ==
    \/ \E b \in Broker :
           \/ CreateKey(b) \/ WriteKey(b) \/ SyncKey(b) \/ KeyFails(b)
           \/ LoadKey(b) \/ OpenLog(b) \/ Stop(b)
    \/ \E t \in Thread :
           \/ AppendVerify(t) \/ AppendWrite(t) \/ AppendCut(t)
           \/ AppendReturn(t) \/ AppendFails(t)

Spec == Init /\ [][Next]_vars

----------------------------------------------------------------------------
(* Properties.                                                               *)

\* Every variable has its type; a broker that gets as far as the log has a
\* whole key.
TypeOK ==
    /\ keyFile \in Key \cup {NoKey, NoFile} /\ drawn \subseteq Key
    /\ held \in [Broker -> Key \cup {NoKey}]
    /\ broker \in [Broker -> {"closed", "key", "sync", "log", "open"}]
    /\ \A b \in Broker : broker[b] # "closed" => held[b] \in Key
    /\ log \in Seq([previous : 0 .. MaxRows, key : Key,
                    form : {"line", "bare", "torn"}])
    /\ holder \in [Broker -> Thread \cup {Nobody}]
    /\ thread \in [Thread -> {"idle", "write", "sync"}]
    /\ seen \in [Thread -> 0 .. MaxRows] /\ acked \subseteq 1 .. MaxRows
    /\ keyLost \in BOOLEAN /\ overlap \in BOOLEAN
    /\ cut \subseteq {"torn", "bare"}

\* However many brokers open a new state root at once, and whichever of them
\* die, they all work with the key that is in the file, so each can verify
\* what the others sign -- unless making the key met an I/O error.
OneKey ==
    ~keyLost => \A b \in Broker : broker[b] \in {"sync", "log", "open"} =>
                    held[b] = keyFile

\* The chain verifies for every broker that is open, through the appends of
\* threads of one broker and the appends of brokers one after another, unless
\* brokers append at once or a write stops short.
SoundChain ==
    ~keyLost /\ ~overlap /\ cut = {} =>
        \A b \in Broker : broker[b] = "open" => Verifies(held[b])

\* append "refuses to append to a chain that no longer verifies": whatever
\* append has returned can be verified to this day, all rows up to it being
\* whole, chained and signed with the key of that row, even when later rows
\* are torn or a key has been lost -- unless brokers append at once or a write
\* stops right before its newline.
AckedStays ==
    ~overlap /\ "bare" \notin cut =>
        \A h \in acked : \A n \in 1 .. h :
            log[n].form = "line" /\ Chained(n) /\ log[n].key = log[h].key
=============================================================================
