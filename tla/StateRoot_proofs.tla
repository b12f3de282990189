--------------------------- MODULE StateRoot_proofs ---------------------------
(* The key and the audit log of a state root, for any number of brokers and  *)
(* threads and a log of any length.                                          *)
EXTENDS StateRoot, TLAPS

----------------------------------------------------------------------------
(* The inductive invariant.                                                  *)

Row == [previous : 0 .. MaxRows, key : Key, form : {"line", "bare", "torn"}]

\* While a key is made its file is empty, and one broker makes it.
MakingInv ==
    ~keyLost =>
        /\ \A b \in Broker : broker[b] = "key" => keyFile = NoKey
        /\ \A b, c \in Broker : broker[b] = "key" /\ broker[c] = "key" => b = c

\* A thread that appends has the lock of its broker's AuditLog; one thread of
\* all brokers does, unless brokers have been appending at once.
HolderInv ==
    /\ \A t \in Thread : thread[t] # "idle" =>
           holder[Owner[t]] = t /\ broker[Owner[t]] = "open"
    /\ ~overlap => \A t, u \in Thread :
                       thread[t] # "idle" /\ thread[u] # "idle" => t = u

\* The numbers of rows are numbers of rows.
NumberInv ==
    /\ Len(log) <= MaxRows
    /\ acked \subseteq 1 .. Len(log)
    /\ \A t \in Thread : thread[t] = "sync" => seen[t] \in 1 .. Len(log)

\* What was cut short is known to be.
CutInv == \A n \in DOMAIN log : log[n].form \in {"line"} \cup cut

\* What a thread has verified is still so when it writes, and as far as its
\* own row when it returns.
VerifiedInv ==
    ~overlap => \A t \in Thread :
        /\ thread[t] = "write" =>
               /\ seen[t] = Len(log)
               /\ \A n \in DOMAIN log :
                      /\ log[n].form # "torn" /\ Chained(n)
                      /\ log[n].key = held[Owner[t]]
        /\ thread[t] = "sync" /\ "bare" \notin cut =>
               \A n \in 1 .. seen[t] :
                   /\ log[n].form = "line" /\ Chained(n)
                   /\ log[n].key = log[seen[t]].key

IInv ==
    /\ TypeOK /\ MakingInv /\ OneKey
    /\ HolderInv /\ NumberInv /\ CutInv /\ VerifiedInv
    /\ SoundChain /\ AckedStays

----------------------------------------------------------------------------
(* The key.                                                                  *)

LEMMA AppendRow ==
    ASSUME NEW row \in Row, log \in Seq(Row), log' = Append(log, row)
    PROVE  /\ log' \in Seq(Row) /\ Len(log) \in Nat
           /\ Len(log') = Len(log) + 1
           /\ DOMAIN log = 1 .. Len(log) /\ DOMAIN log' = 1 .. Len(log')
           /\ \A n \in 1 .. Len(log) : log'[n] = log[n]
           /\ log'[Len(log')] = row
  OBVIOUS

\* A step that leaves the log and its appends alone.
LEMMA LogKept ==
    ASSUME IInv, UNCHANGED appends, UNCHANGED <<overlap, cut>>,
           keyLost => keyLost',
           \A b \in Broker : broker[b] = "open" => broker'[b] = "open",
           \A b \in Broker : broker'[b] = "open" =>
               \/ broker[b] = "open" /\ held'[b] = held[b]
               \/ Verifies(held'[b])
    PROVE  HolderInv' /\ NumberInv' /\ CutInv' /\ VerifiedInv' /\ SoundChain'
               /\ AckedStays'
  <1>1. UNCHANGED <<log, holder, thread, seen, acked>>
    BY DEF appends
  <1>2. HolderInv'
    BY <1>1, OwnerAssumption DEF IInv, HolderInv
  <1>3. NumberInv' /\ CutInv' /\ AckedStays'
    BY <1>1 DEF IInv, NumberInv, CutInv, AckedStays, Chained
  <1>6. \A t \in Thread : thread[t] = "write" => /\ Owner[t] \in Broker
                                                /\ broker'[Owner[t]] = "open"
    BY OwnerAssumption DEF IInv, HolderInv
  <1>7. VerifiedInv'
    BY <1>1, <1>6 DEF IInv, VerifiedInv, Verifies, Chained
  <1>4. SoundChain'
    BY <1>1 DEF IInv, SoundChain, Verifies, Chained
  <1>5. QED
    BY <1>2, <1>3, <1>4, <1>7

LEMMA KeySteps ==
    ASSUME IInv, NEW b \in Broker,
           \/ CreateKey(b) \/ WriteKey(b) \/ SyncKey(b) \/ KeyFails(b)
           \/ LoadKey(b) \/ OpenLog(b)
    PROVE  IInv'
  <1>1. UNCHANGED appends /\ UNCHANGED <<overlap, cut>>
            /\ (keyLost => keyLost')
    BY DEF CreateKey, WriteKey, SyncKey, KeyFails, LoadKey, OpenLog
  <1>2. /\ keyFile \in Key \cup {NoKey, NoFile} /\ drawn \subseteq Key
        /\ held \in [Broker -> Key \cup {NoKey}]
        /\ broker \in [Broker -> {"closed", "key", "sync", "log", "open"}]
        /\ \A c \in Broker : broker[c] # "closed" => held[c] \in Key
    BY DEF IInv, TypeOK
  <1>3. /\ keyFile' \in Key \cup {NoKey, NoFile} /\ drawn' \subseteq Key
        /\ held' \in [Broker -> Key \cup {NoKey}]
        /\ broker' \in [Broker -> {"closed", "key", "sync", "log", "open"}]
        /\ \A c \in Broker : broker'[c] # "closed" => held'[c] \in Key
    BY <1>2, KeyAssumption
    DEF CreateKey, WriteKey, SyncKey, KeyFails, LoadKey, OpenLog, keys
  <1>4. keyLost' \in BOOLEAN
    BY DEF CreateKey, WriteKey, SyncKey, KeyFails, LoadKey, OpenLog, IInv,
           TypeOK
  <1>5. TypeOK'
    BY <1>1, <1>3, <1>4 DEF IInv, TypeOK, appends
  <1>6. /\ \A c \in Broker : broker[c] = "open" => broker'[c] = "open"
        /\ \A c \in Broker : broker'[c] = "open" =>
               \/ broker[c] = "open" /\ held'[c] = held[c]
               \/ Verifies(held'[c])
    BY <1>2 DEF CreateKey, WriteKey, SyncKey, KeyFails, LoadKey, OpenLog, keys
  <1>7. HolderInv' /\ NumberInv' /\ CutInv' /\ VerifiedInv' /\ SoundChain'
            /\ AckedStays'
    BY <1>1, <1>6, LogKept
  <1>8. MakingInv' /\ OneKey'
    <2>1. CASE keyLost'
      BY <2>1 DEF MakingInv, OneKey
    <2>2. CASE ~keyLost'
      <3>1. MakingInv /\ OneKey /\ ~keyLost /\ ~KeyFails(b)
        BY <2>2 DEF IInv, KeyFails, CreateKey, WriteKey, SyncKey, LoadKey,
                    OpenLog
      <3>2. CASE CreateKey(b)
        BY <1>2, <3>1, <3>2, KeyAssumption DEF CreateKey, MakingInv, OneKey
      <3>3. CASE WriteKey(b)
        BY <1>2, <3>1, <3>3, KeyAssumption DEF WriteKey, MakingInv, OneKey
      <3>4. CASE SyncKey(b) \/ OpenLog(b)
        BY <1>2, <3>1, <3>4 DEF SyncKey, OpenLog, MakingInv, OneKey, keys
      <3>5. CASE LoadKey(b)
        BY <1>2, <3>1, <3>5, KeyAssumption DEF LoadKey, MakingInv, OneKey
      <3>6. QED
        BY <3>1, <3>2, <3>3, <3>4, <3>5
    <2>3. QED
      BY <2>1, <2>2
  <1>9. QED
    BY <1>5, <1>7, <1>8 DEF IInv

----------------------------------------------------------------------------
(* The log.                                                                  *)

\* The steps of appends leave the keys alone.
LEMMA KeysKept ==
    ASSUME IInv, UNCHANGED <<keys, broker, keyLost>>
    PROVE  MakingInv' /\ OneKey'
  BY DEF IInv, MakingInv, OneKey, keys

LEMMA AppendVerifyPreserves ==
    ASSUME IInv, NEW t \in Thread, AppendVerify(t)
    PROVE  IInv'
  <1> DEFINE b == Owner[t]
  <1>1. /\ b \in Broker /\ broker[b] = "open" /\ ~Appending(b)
        /\ Verifies(held[b]) /\ thread[t] = "idle"
        /\ holder' = [holder EXCEPT ![b] = t]
        /\ thread' = [thread EXCEPT ![t] = "write"]
        /\ seen' = [seen EXCEPT ![t] = Len(log)]
        /\ overlap' = (overlap \/ \E c \in Broker \ {b} : Appending(c))
        /\ UNCHANGED <<keyFile, drawn, held, broker, log, acked, keyLost, cut>>
    BY OwnerAssumption DEF AppendVerify, keys
  <1>2. /\ log \in Seq(Row) /\ Len(log) \in Nat /\ DOMAIN log = 1 .. Len(log)
        /\ holder \in [Broker -> Thread \cup {Nobody}]
        /\ thread \in [Thread -> {"idle", "write", "sync"}]
        /\ seen \in [Thread -> 0 .. MaxRows]
        /\ Len(log) <= MaxRows
    BY DEF IInv, TypeOK, NumberInv, Row
  <1>3. TypeOK'
    <2>1. overlap' \in BOOLEAN
      BY <1>1 DEF IInv, TypeOK
    <2>2. /\ holder' \in [Broker -> Thread \cup {Nobody}]
          /\ thread' \in [Thread -> {"idle", "write", "sync"}]
          /\ seen' \in [Thread -> 0 .. MaxRows]
      BY <1>1, <1>2, MaxRowsAssumption
    <2>3. QED
      BY <1>1, <2>1, <2>2 DEF IInv, TypeOK
  <1>4. MakingInv' /\ OneKey'
    BY <1>1, KeysKept DEF keys
  <1>5. \A u \in Thread \ {t} :
            /\ thread'[u] = thread[u] /\ seen'[u] = seen[u]
            /\ thread[u] # "idle" => Owner[u] # b
    BY <1>1, <1>2, OwnerAssumption DEF IInv, HolderInv, Appending
  <1>6. ~overlap' => ~overlap /\ \A u \in Thread \ {t} : thread[u] = "idle"
    <2> SUFFICES ASSUME ~overlap', NEW u \in Thread \ {t}
                 PROVE  ~overlap /\ thread[u] = "idle"
      BY <1>1
    <2>1. ~overlap /\ \A c \in Broker \ {b} : ~Appending(c)
      BY <1>1
    <2>2. thread[u] # "idle" => /\ Owner[u] \in Broker \ {b}
                                /\ holder[Owner[u]] = u /\ u # Nobody
      BY <1>5, OwnerAssumption DEF IInv, HolderInv
    <2>3. QED
      BY <2>1, <2>2 DEF Appending
  <1>7. HolderInv'
    BY <1>1, <1>2, <1>5, <1>6, OwnerAssumption DEF IInv, HolderInv
  <1>8. NumberInv' /\ CutInv'
    BY <1>1, <1>2, <1>5 DEF IInv, NumberInv, CutInv
  <1>9. VerifiedInv'
    BY <1>1, <1>2, <1>5, <1>6 DEF Verifies, VerifiedInv, Chained
  <1>10. SoundChain' /\ AckedStays'
    BY <1>1, <1>6 DEF IInv, SoundChain, AckedStays, Verifies, Chained
  <1>11. QED
    BY <1>3, <1>4, <1>7, <1>8, <1>9, <1>10 DEF IInv

\* What a write adds to the log.
LEMMA Written ==
    ASSUME IInv, NEW t \in Thread, NEW form \in {"line", "bare", "torn"},
           Write(t, form)
    PROVE  /\ thread[t] = "write" /\ broker[Owner[t]] = "open"
           /\ log' \in Seq(Row)
           /\ Len(log) \in Nat /\ Len(log) < MaxRows
           /\ Len(log') = Len(log) + 1
           /\ DOMAIN log = 1 .. Len(log) /\ DOMAIN log' = 1 .. Len(log')
           /\ \A n \in 1 .. Len(log) : log'[n] = log[n]
           /\ log'[Len(log')].previous = seen[t]
           /\ log'[Len(log')].key = held[Owner[t]]
           /\ log'[Len(log')].form = form
  <1> DEFINE row == [previous |-> seen[t], key |-> held[Owner[t]],
                     form |-> form]
  <1>1. thread[t] = "write" /\ Len(log) < MaxRows /\ log' = Append(log, row)
    BY DEF Write
  <1>2. broker[Owner[t]] = "open"
    BY <1>1 DEF IInv, HolderInv
  <1>3. row \in Row /\ log \in Seq(Row)
    BY <1>2, OwnerAssumption DEF IInv, TypeOK, Row
  <1>4. row.previous = seen[t] /\ row.key = held[Owner[t]] /\ row.form = form
    OBVIOUS
  <1> HIDE DEF row
  <1>5. QED
    BY <1>1, <1>2, <1>3, <1>4, AppendRow

LEMMA AppendWritePreserves ==
    ASSUME IInv, NEW t \in Thread, AppendWrite(t) \/ AppendCut(t)
    PROVE  IInv'
  <1> DEFINE b == Owner[t]
  <1>1. PICK form \in {"line", "bare", "torn"} :
            /\ Write(t, form)
            /\ form = "line" => /\ thread' = [thread EXCEPT ![t] = "sync"]
                                /\ seen' = [seen EXCEPT ![t] = Len(log) + 1]
                                /\ UNCHANGED <<holder, cut>>
            /\ form # "line" => /\ thread' = [thread EXCEPT ![t] = "idle"]
                                /\ holder' = [holder EXCEPT ![b] = Nobody]
                                /\ cut' = cut \cup {form}
                                /\ UNCHANGED seen
    BY DEF AppendWrite, AppendCut, Leave
  <1>2. UNCHANGED <<keyFile, drawn, held, broker, acked, keyLost, overlap>>
    BY DEF AppendWrite, AppendCut, keys
  <1>3. /\ thread[t] = "write" /\ broker[b] = "open"
        /\ log' \in Seq(Row)
        /\ Len(log) \in Nat /\ Len(log) < MaxRows
        /\ Len(log') = Len(log) + 1
        /\ DOMAIN log = 1 .. Len(log) /\ DOMAIN log' = 1 .. Len(log')
        /\ \A n \in 1 .. Len(log) : log'[n] = log[n]
        /\ log'[Len(log')].previous = seen[t]
        /\ log'[Len(log')].key = held[b]
        /\ log'[Len(log')].form = form
    BY <1>1, Written
  <1>4. /\ b \in Broker /\ thread \in [Thread -> {"idle", "write", "sync"}]
        /\ seen \in [Thread -> 0 .. MaxRows] /\ cut \subseteq {"torn", "bare"}
        /\ holder \in [Broker -> Thread \cup {Nobody}]
        /\ \A c \in Broker : broker[c] = "open" => held[c] \in Key
    BY OwnerAssumption DEF IInv, TypeOK
  <1>5. TypeOK'
    <2>1. /\ thread' \in [Thread -> {"idle", "write", "sync"}]
          /\ seen' \in [Thread -> 0 .. MaxRows]
          /\ holder' \in [Broker -> Thread \cup {Nobody}]
          /\ cut' \subseteq {"torn", "bare"}
      <3>1. CASE form = "line"
        <4>1. Len(log) + 1 \in 0 .. MaxRows
          BY <1>3, MaxRowsAssumption
        <4>2. QED
          BY <1>1, <1>4, <3>1, <4>1
      <3>2. CASE form # "line"
        BY <1>1, <1>4, <3>2
      <3>3. QED
        BY <3>1, <3>2
    <2>2. QED
      BY <1>2, <1>3, <2>1 DEF IInv, TypeOK, Row
  <1>6. MakingInv' /\ OneKey'
    BY <1>2, KeysKept DEF keys
  <1>7. \A u \in Thread \ {t} :
            /\ thread'[u] = thread[u] /\ seen'[u] = seen[u]
            /\ thread[u] # "idle" => Owner[u] # b
            /\ ~overlap => thread[u] = "idle"
    BY <1>1, <1>3, <1>4 DEF IInv, HolderInv
  <1>0. /\ thread'[t] = IF form = "line" THEN "sync" ELSE "idle"
        /\ seen'[t] = IF form = "line" THEN Len(log') ELSE seen[t]
        /\ \A c \in Broker \ {b} : holder'[c] = holder[c]
        /\ form = "line" => holder'[b] = holder[b]
    BY <1>1, <1>3, <1>4
  <1>8. HolderInv'
    <2>1. \A u \in Thread : thread'[u] # "idle" =>
              /\ thread[u] # "idle" /\ holder'[Owner[u]] = holder[Owner[u]]
      BY <1>0, <1>3, <1>7, OwnerAssumption
    <2>2. QED
      BY <1>2, <2>1 DEF IInv, HolderInv
  <1>9. NumberInv'
    BY <1>0, <1>2, <1>3, <1>7, MaxRowsAssumption DEF IInv, NumberInv
  <1>10. CutInv' /\ cut \subseteq cut'
    BY <1>1, <1>3 DEF IInv, CutInv
  <1>11. ~overlap => /\ seen[t] = Len(log)
                     /\ \A n \in 1 .. Len(log) :
                            /\ log[n].form # "torn" /\ Chained(n)
                            /\ log[n].key = held[b]
    BY <1>3 DEF IInv, VerifiedInv
  <1>12. \A n \in 1 .. Len(log) : log'[n] = log[n] /\ (Chained(n) <=> Chained(n)')
    BY <1>3 DEF Chained
  <1>13. ~overlap => log'[Len(log')].previous = Len(log') - 1
    BY <1>3, <1>11
  <1>14. VerifiedInv'
    <2> SUFFICES ASSUME ~overlap, form = "line", "bare" \notin cut
                 PROVE  \A n \in 1 .. seen'[t] :
                            /\ log'[n].form = "line" /\ Chained(n)'
                            /\ log'[n].key = held[b]
      <3>1. form = "line" => log'[seen'[t]].key = held[b]
        BY <1>0, <1>3
      <3>2. ~overlap => \A u \in Thread \ {t} : thread'[u] = "idle"
        BY <1>7
      <3>3. "bare" \notin cut' => "bare" \notin cut
        BY <1>1
      <3>4. thread'[t] = "sync" => form = "line"
        BY <1>0
      <3>5. QED
        BY <1>2, <3>1, <3>2, <3>3, <3>4, <1>0 DEF VerifiedInv
    <2>1. seen'[t] = Len(log')
      BY <1>0
    <2>2. ASSUME NEW n \in 1 .. Len(log)
          PROVE  log[n].form = "line" /\ Chained(n) /\ log[n].key = held[b]
      <3>1. log[n].form \in {"line"} \cup cut
        BY <1>3 DEF IInv, CutInv
      <3>2. QED
        BY <1>4, <1>11, <3>1
    <2>3. \A n \in 1 .. Len(log') : n \in 1 .. Len(log) \/ n = Len(log')
      BY <1>3
    <2>4. QED
      BY <1>3, <1>12, <1>13, <2>1, <2>2, <2>3 DEF Chained
  <1>15. SoundChain'
    <2> SUFFICES ASSUME ~keyLost, ~overlap, cut' = {},
                        NEW c \in Broker, broker[c] = "open"
                 PROVE  Verifies(held[c])'
      BY <1>2 DEF SoundChain
    <2>1. cut = {} /\ form = "line"
      BY <1>1, <1>10
    <2>2. held[c] = keyFile /\ held[b] = keyFile
      BY <1>3, <1>4 DEF IInv, OneKey
    <2>3. Verifies(held[c])
      BY <2>1 DEF IInv, SoundChain
    <2>4. \A n \in 1 .. Len(log) : log[n].form = "line"
      BY <1>3, <2>1 DEF IInv, CutInv
    <2>5. \A n \in 1 .. Len(log) : Chained(n) /\ log[n].key = held[c]
      BY <1>3, <2>3 DEF Verifies
    <2>6. \A n \in 1 .. Len(log') : n \in 1 .. Len(log) \/ n = Len(log')
      BY <1>3
    <2>7. \A n \in 1 .. Len(log') :
              /\ log'[n].form = "line" /\ log'[n].previous = n - 1
              /\ log'[n].key = held[c]
      BY <1>3, <1>13, <2>1, <2>2, <2>4, <2>5, <2>6 DEF Chained
    <2>8. QED
      BY <1>2, <1>3, <2>7 DEF Verifies, Chained
  <1>16. AckedStays'
    BY <1>2, <1>3, <1>10, <1>12 DEF IInv, NumberInv, AckedStays
  <1>17. QED
    BY <1>5, <1>6, <1>8, <1>9, <1>10, <1>14, <1>15, <1>16 DEF IInv

\* An append that is over, or a broker that stops.
LEMMA EndPreserves ==
    ASSUME IInv, NEW T \in SUBSET Thread,
           UNCHANGED <<keyFile, drawn, held, log, seen, keyLost, overlap, cut>>,
           holder' \in [Broker -> Thread \cup {Nobody}],
           broker' \in [Broker -> {"closed", "key", "sync", "log", "open"}],
           \A b \in Broker : broker'[b] \in {"closed", broker[b]},
           thread' = [t \in Thread |-> IF t \in T THEN "idle" ELSE thread[t]],
           \A t \in Thread \ T : thread[t] # "idle" =>
               holder'[Owner[t]] = holder[Owner[t]]
                   /\ broker'[Owner[t]] = broker[Owner[t]],
           acked' = acked
               \/ \E t \in Thread : thread[t] = "sync"
                                    /\ acked' = acked \cup {seen[t]}
    PROVE  IInv'
  <1>1. /\ Len(log) \in Nat /\ DOMAIN log = 1 .. Len(log)
        /\ Len(log) <= MaxRows
        /\ \A t \in Thread : thread[t] = "sync" => seen[t] \in 1 .. Len(log)
        /\ thread \in [Thread -> {"idle", "write", "sync"}]
    BY DEF IInv, TypeOK, NumberInv
  <1>2. \A t \in Thread : thread'[t] # "idle" =>
            thread'[t] = thread[t] /\ t \notin T
    OBVIOUS
  <1>3. TypeOK'
    <2>1. thread' \in [Thread -> {"idle", "write", "sync"}]
      BY <1>1
    <2>2. acked' \subseteq 1 .. MaxRows
      <3>1. acked' \subseteq 1 .. Len(log)
        <4>1. acked \subseteq 1 .. Len(log)
          BY DEF IInv, NumberInv
        <4>2. CASE acked' = acked
          BY <4>1, <4>2
        <4>3. CASE \E t \in Thread : thread[t] = "sync"
                                      /\ acked' = acked \cup {seen[t]}
          BY <1>1, <4>1, <4>3
        <4>4. QED
          BY <4>2, <4>3
      <3>2. QED
        BY <1>1, <3>1, MaxRowsAssumption
    <2>3. \A b \in Broker : broker'[b] # "closed" => held[b] \in Key
      BY DEF IInv, TypeOK
    <2>4. QED
      BY <2>1, <2>2, <2>3 DEF IInv, TypeOK
  <1>4. MakingInv' /\ OneKey'
    BY DEF IInv, MakingInv, OneKey
  <1>5. HolderInv'
    BY <1>2 DEF IInv, HolderInv
  <1>6. NumberInv' /\ CutInv'
    BY <1>1, <1>2 DEF IInv, NumberInv, CutInv
  <1>7. VerifiedInv'
    BY <1>2 DEF IInv, VerifiedInv, Chained
  <1>8. SoundChain'
    BY DEF IInv, SoundChain, Verifies, Chained
  <1>9. AckedStays'
    BY DEF IInv, VerifiedInv, AckedStays, Chained
  <1>10. QED
    BY <1>3, <1>4, <1>5, <1>6, <1>7, <1>8, <1>9 DEF IInv

LEMMA EndSteps ==
    ASSUME IInv,
           \/ \E t \in Thread : AppendReturn(t) \/ AppendFails(t)
           \/ \E b \in Broker : Stop(b)
    PROVE  IInv'
  <1>1. /\ holder \in [Broker -> Thread \cup {Nobody}]
        /\ broker \in [Broker -> {"closed", "key", "sync", "log", "open"}]
        /\ thread \in [Thread -> {"idle", "write", "sync"}]
        /\ \A t \in Thread : thread[t] # "idle" => holder[Owner[t]] = t
    BY DEF IInv, TypeOK, HolderInv
  <1>2. ASSUME NEW t \in Thread, AppendReturn(t) \/ AppendFails(t)
        PROVE  IInv'
    <2>1. /\ thread[t] # "idle"
          /\ thread' = [thread EXCEPT ![t] = "idle"]
          /\ holder' = [holder EXCEPT ![Owner[t]] = Nobody]
          /\ UNCHANGED <<keyFile, drawn, held, broker, log, seen, keyLost,
                         overlap, cut>>
          /\ acked' = acked
                 \/ (thread[t] = "sync" /\ acked' = acked \cup {seen[t]})
      BY <1>2 DEF AppendReturn, AppendFails, Leave, keys
    <2>2. thread' = [u \in Thread |-> IF u \in {t} THEN "idle" ELSE thread[u]]
      BY <1>1, <2>1
    <2>3. holder' \in [Broker -> Thread \cup {Nobody}]
      BY <1>1, <2>1
    <2>4. \A u \in Thread \ {t} : thread[u] # "idle" =>
              holder'[Owner[u]] = holder[Owner[u]]
      BY <1>1, <2>1, OwnerAssumption
    <2>5. {t} \in SUBSET Thread
      OBVIOUS
    <2>6. /\ broker' \in [Broker -> {"closed", "key", "sync", "log", "open"}]
          /\ \A c \in Broker : broker'[c] \in {"closed", broker[c]}
      BY <1>1, <2>1
    <2>7. acked' = acked
              \/ \E u \in Thread : thread[u] = "sync"
                                   /\ acked' = acked \cup {seen[u]}
      BY <2>1
    <2> DEFINE T == {t}
    <2>8. /\ T \in SUBSET Thread
          /\ thread' = [u \in Thread |-> IF u \in T THEN "idle" ELSE thread[u]]
          /\ \A u \in Thread \ T : thread[u] # "idle" =>
                 holder'[Owner[u]] = holder[Owner[u]]
                     /\ broker'[Owner[u]] = broker[Owner[u]]
      BY <2>1, <2>2, <2>4, <2>5
    <2> HIDE DEF T
    <2>9. QED
      BY <2>1, <2>3, <2>6, <2>7, <2>8, EndPreserves
  <1>3. ASSUME NEW b \in Broker, Stop(b)
        PROVE  IInv'
    <2> DEFINE T == {t \in Thread : Owner[t] = b}
    <2>1. /\ broker' = [broker EXCEPT ![b] = "closed"]
          /\ holder' = [holder EXCEPT ![b] = Nobody]
          /\ thread' = [t \in Thread |-> IF Owner[t] = b THEN "idle"
                                         ELSE thread[t]]
          /\ UNCHANGED <<keyFile, drawn, held, log, seen, acked, keyLost,
                         overlap, cut>>
      BY <1>3 DEF Stop, keys
    <2>2. thread' = [t \in Thread |-> IF t \in T THEN "idle" ELSE thread[t]]
      BY <2>1
    <2>3. /\ holder' \in [Broker -> Thread \cup {Nobody}]
          /\ broker' \in [Broker -> {"closed", "key", "sync", "log", "open"}]
          /\ \A c \in Broker : broker'[c] \in {"closed", broker[c]}
      BY <1>1, <2>1
    <2>4. \A t \in Thread \ T : thread[t] # "idle" =>
              holder'[Owner[t]] = holder[Owner[t]]
                  /\ broker'[Owner[t]] = broker[Owner[t]]
      BY <1>1, <2>1, OwnerAssumption
    <2> HIDE DEF T
    <2>5. T \in SUBSET Thread
      BY DEF T
    <2>6. QED
      BY <2>1, <2>2, <2>3, <2>4, <2>5, EndPreserves
  <1>4. QED
    BY <1>2, <1>3

----------------------------------------------------------------------------
(* The invariant is inductive.                                               *)

LEMMA IInvInit == Init => IInv
  <1> SUFFICES ASSUME Init PROVE IInv
    OBVIOUS
  <1>1. log = <<>> /\ Len(log) = 0 /\ DOMAIN log = {}
    BY DEF Init
  <1>2. TypeOK
    <2>1. keyLost \in BOOLEAN
      BY DEF Init
    <2>2. overlap \in BOOLEAN
      BY DEF Init
    <2>3. QED
      BY <1>1, <2>1, <2>2, MaxRowsAssumption DEF Init, TypeOK
  <1>3. MakingInv /\ OneKey /\ SoundChain
    BY DEF Init, MakingInv, OneKey, SoundChain
  <1>4. HolderInv /\ NumberInv /\ CutInv /\ VerifiedInv /\ AckedStays
    BY <1>1, MaxRowsAssumption
    DEF Init, HolderInv, NumberInv, CutInv, VerifiedInv, AckedStays
  <1>5. QED
    BY <1>2, <1>3, <1>4 DEF IInv

LEMMA IInvNext == IInv /\ [Next]_vars => IInv'
  <1> SUFFICES ASSUME IInv, [Next]_vars PROVE IInv'
    OBVIOUS
  <1>1. CASE \E b \in Broker : \/ CreateKey(b) \/ WriteKey(b) \/ SyncKey(b)
                               \/ KeyFails(b) \/ LoadKey(b) \/ OpenLog(b)
    BY <1>1, KeySteps
  <1>2. CASE \E t \in Thread : AppendVerify(t)
    BY <1>2, AppendVerifyPreserves
  <1>3. CASE \E t \in Thread : AppendWrite(t) \/ AppendCut(t)
    BY <1>3, AppendWritePreserves
  <1>4. CASE \/ \E t \in Thread : AppendReturn(t) \/ AppendFails(t)
             \/ \E b \in Broker : Stop(b)
    BY <1>4, EndSteps
  <1>5. CASE UNCHANGED vars
    BY <1>5 DEF vars, keys, appends, IInv, TypeOK, MakingInv, OneKey,
                HolderInv, NumberInv, CutInv, VerifiedInv, SoundChain,
                AckedStays, Verifies, Chained
  <1>6. QED
    BY <1>1, <1>2, <1>3, <1>4, <1>5 DEF Next

LEMMA Inductive == Spec => []IInv
  <1>1. QED
    BY IInvInit, IInvNext, PTL DEF Spec

\* Every variable keeps its type, and no broker works with half a key.
THEOREM TypeCorrect == Spec => []TypeOK
  <1>1. IInv => TypeOK
    BY DEF IInv
  <1>2. QED
    BY <1>1, Inductive, PTL

\* However many brokers open a new state root at once, one key comes of it.
THEOREM KeyIsOne == Spec => []OneKey
  <1>1. IInv => OneKey
    BY DEF IInv
  <1>2. QED
    BY <1>1, Inductive, PTL

\* For any number of brokers and threads that append one after another, the
\* chain verifies for every broker that is open.
THEOREM ChainIsSound == Spec => []SoundChain
  <1>1. IInv => SoundChain
    BY DEF IInv
  <1>2. QED
    BY <1>1, Inductive, PTL

\* What append has returned stays whole, chained and signed with one key,
\* through torn writes, lost keys and stops, as long as no two brokers append
\* at once and no write stops right before its newline.
THEOREM AckedRowsStay == Spec => []AckedStays
  <1>1. IInv => AckedStays
    BY DEF IInv
  <1>2. QED
    BY <1>1, Inductive, PTL
=============================================================================
