-------------------------- MODULE DiscoveryLogProofs --------------------------
(***************************************************************************)
(* Lemmas about discoveryd's bounded event log: what a step that logs some *)
(* events leaves in it, and that the log stays faithful to the store.      *)
(***************************************************************************)
EXTENDS DiscoveryServer, SequenceTheorems, TLAPS

(* The events evs are logged, numbered on from the current revision. *)
Logs(evs) ==
  /\ \A i \in 1..Len(evs) : evs[i].rev = revision + i
  /\ revision' = revision + Len(evs)
  /\ event_log' = Trimmed(event_log \o evs)

(* What the event e says of the store is so. *)
Says(e, store) ==
  IF e.is_put
  THEN e.key \in DOMAIN store /\ store[e.key].value = e.value /\ store[e.key].mod_revision = e.rev
  ELSE e.key \notin DOMAIN store

(* The keys of K are the keys of evs, the last event of each says what the    *)
(* store now holds, and the other keys are as they were.                      *)
Tells(evs, K) ==
  /\ \A i \in 1..Len(evs) : evs[i].key \in K
  /\ \A k \in K : \E i \in 1..Len(evs) : evs[i].key = k
  /\ \A i \in 1..Len(evs) :
       (\A j \in i + 1..Len(evs) : evs[j].key # evs[i].key) => Says(evs[i], kvs')
  /\ \A k \in K \cap DOMAIN kvs' :
       \E i \in 1..Len(evs) : evs[i].key = k /\ kvs'[k].mod_revision = evs[i].rev
  /\ DOMAIN kvs' \ K = DOMAIN kvs \ K
  /\ \A k \in DOMAIN kvs \ K : kvs'[k] = kvs[k]

(* Trimming keeps a non-empty suffix of the log, no longer than its capacity. *)
LEMMA TrimmedSuffix ==
  ASSUME NEW S, NEW s \in Seq(S)
  PROVE  /\ Trimmed(s) \in Seq(S)
         /\ Len(Trimmed(s)) <= LogCapacity
         /\ Len(Trimmed(s)) <= Len(s)
         /\ Len(s) > 0 => Len(Trimmed(s)) > 0
         /\ \A i \in 1..Len(Trimmed(s)) : Trimmed(s)[i] = s[i + (Len(s) - Len(Trimmed(s)))]
  <1>1. CASE Len(s) <= LogCapacity
    <2>1. Trimmed(s) = s /\ Len(s) \in Nat /\ s \in Seq(S)
      BY <1>1, ServerAssumption DEF Trimmed
    <2>2. \A i \in 1..Len(s) : s[i] = s[i + (Len(s) - Len(s))]
      BY <2>1
    <2> QED
      BY <1>1, <2>1, <2>2
  <1>2. CASE Len(s) > LogCapacity
    <2> DEFINE m == Len(s) - LogCapacity + 1
    <2>1. m \in 1..Len(s) + 1 /\ Len(s) \in Nat
      BY <1>2, ServerAssumption
    <2>2. Trimmed(s) = SubSeq(s, m, Len(s))
      BY ZenonT(30), <1>2 DEF Trimmed
    <2>3. /\ SubSeq(s, m, Len(s)) \in Seq(S)
          /\ Len(SubSeq(s, m, Len(s))) = Len(s) - m + 1
          /\ \A i \in 1..Len(s) - m + 1 : SubSeq(s, m, Len(s))[i] = s[m + i - 1]
      BY <2>1, <1>2, SubSeqProperties, ServerAssumption
    <2> QED
      BY <2>1, <2>2, <2>3, <1>2, ServerAssumption
  <1> QED
    BY <1>1, <1>2, ServerAssumption

(* A function on 1..n is a sequence of length n. *)
LEMMA FunctionIsSeq ==
  ASSUME NEW S, NEW n \in Nat, NEW f \in [1..n -> S]
  PROVE  f \in Seq(S) /\ Len(f) = n
  OBVIOUS

(* Logging the events evs, numbered from the current revision: the new log is *)
(* the old one and evs without their oldest elements, numbered without a gap. *)
LEMMA LogStep ==
  ASSUME ServerTypeOK, LogFaithful,
         NEW evs \in Seq(Logged),
         Logs(evs)
  PROVE  /\ event_log' \in Seq(Logged)
         /\ Len(event_log') <= LogCapacity
         /\ Len(event_log') \in 0..Len(event_log) + Len(evs)
         /\ Len(evs) > 0 => Len(event_log') > 0
         /\ \A i \in 1..Len(event_log') :
              LET j == i + (Len(event_log) + Len(evs) - Len(event_log'))
              IN event_log'[i] = IF j <= Len(event_log) THEN event_log[j] ELSE evs[j - Len(event_log)]
         /\ \A i \in 1..Len(event_log') :
              event_log'[i].rev = revision' - Len(event_log') + i
  <1> DEFINE L == event_log \o evs
             n == Len(event_log)
             m == Len(evs)
  <1>1. event_log \in Seq(Logged) /\ n \in Nat /\ m \in Nat /\ revision \in Nat
    BY ServerAssumption DEF ServerTypeOK
  <1>2. /\ L \in Seq(Logged) /\ Len(L) = n + m
        /\ \A i \in 1..n + m : L[i] = IF i <= n THEN event_log[i] ELSE evs[i - n]
    BY <1>1, ConcatProperties
  <1>3. /\ event_log' \in Seq(Logged) /\ Len(event_log') <= LogCapacity
        /\ Len(event_log') <= n + m
        /\ n + m > 0 => Len(event_log') > 0
        /\ \A i \in 1..Len(event_log') : event_log'[i] = L[i + (n + m - Len(event_log'))]
    <2>1. PICK s \in Seq(Logged) : s = L
      BY Zenon, <1>2
    <2>2. event_log' = Trimmed(s) /\ Len(s) = n + m
      BY <1>2, <2>1 DEF Logs
    <2>3. /\ Trimmed(s) \in Seq(Logged)
          /\ Len(Trimmed(s)) <= LogCapacity
          /\ Len(Trimmed(s)) <= Len(s)
          /\ Len(s) > 0 => Len(Trimmed(s)) > 0
          /\ \A i \in 1..Len(Trimmed(s)) : Trimmed(s)[i] = s[i + (Len(s) - Len(Trimmed(s)))]
      BY TrimmedSuffix
    <2> HIDE DEF L
    <2> QED
      BY <2>1, <2>2, <2>3
  <1>4. Len(event_log') \in Nat
    BY <1>3
  <1> DEFINE k == Len(event_log')
  <1>5. \A i \in 1..k : i + (n + m - k) \in 1..n + m
    BY <1>1, <1>3, <1>4
  <1> HIDE DEF L
  <1>6. \A i \in 1..k : LET j == i + (n + m - k)
                        IN event_log'[i] = IF j <= n THEN event_log[j] ELSE evs[j - n]
    BY Zenon, <1>2, <1>3, <1>5
  <1>7. \A i \in 1..n : event_log[i].rev = revision - n + i
    BY DEF LogFaithful
  <1>8. \A i \in 1..k : event_log'[i].rev = revision' - k + i
    <2> TAKE i \in 1..k
    <2> DEFINE j == i + (n + m - k)
    <2>1. j \in 1..n + m
      BY <1>5
    <2>2. CASE j <= n
      <3>1. event_log'[i] = event_log[j] /\ j \in 1..n
        BY <1>6, <2>1, <2>2, <1>1
      <3> QED
        BY <3>1, <1>1, <1>4, <1>7 DEF Logs
    <2>3. CASE j > n
      <3>1. event_log'[i] = evs[j - n] /\ j - n \in 1..m
        BY SMTT(20), <1>6, <2>1, <2>3, <1>1
      <3> QED
        BY <3>1, <1>1, <1>4 DEF Logs
    <2> QED
      BY <2>1, <2>2, <2>3, <1>1
  <1> QED
    BY <1>1, <1>3, <1>4, <1>6, <1>8

(* The log stays faithful to the store. *)
LEMMA FaithfulStep ==
  ASSUME ServerTypeOK, LogFaithful, NEW evs \in Seq(Logged), NEW K, Logs(evs), Tells(evs, K)
  PROVE  LogFaithful'
  <1> DEFINE n == Len(event_log)
             m == Len(evs)
             n2 == Len(event_log')
             off == n + m - n2
  <1>1. /\ event_log' \in Seq(Logged)
        /\ n2 \in 0..n + m
        /\ \A i \in 1..n2 :
             LET j == i + (n + m - n2)
             IN event_log'[i] = IF j <= n THEN event_log[j] ELSE evs[j - n]
        /\ \A i \in 1..n2 : event_log'[i].rev = revision' - n2 + i
    BY Zenon, LogStep
  <1>2. event_log \in Seq(Logged) /\ n \in Nat /\ m \in Nat /\ revision \in Nat /\ n2 \in Nat
    BY <1>1, ServerAssumption DEF ServerTypeOK
  <1>3. off \in Nat /\ n2 + off = n + m
    BY <1>1, <1>2
  <1>4. \A i \in 1..n2, p \in 1..n : p = i + off => event_log'[i] = event_log[p]
    BY <1>1, <1>2
  <1>5. \A i \in 1..n2, q \in 1..m : n + q = i + off => event_log'[i] = evs[q]
    <2> SUFFICES ASSUME NEW i \in 1..n2, NEW q \in 1..m, n + q = i + off
                 PROVE  event_log'[i] = evs[q]
      BY Zenon
    <2>1. i + (n + m - n2) = n + q /\ ~(n + q <= n) /\ (n + q) - n = q
      BY <1>2, <1>3
    <2> QED
      BY <1>1, <2>1
  <1> HIDE DEF off
  <1>6. \A i \in 1..n : event_log[i].rev = revision - n + i
    BY DEF LogFaithful
  <1>7. \A p \in 1..n : p > off => \E i \in 1..n2 : p = i + off /\ event_log'[i] = event_log[p]
    <2> TAKE p \in 1..n
    <2> HAVE p > off
    <2>1. p - off \in 1..n2 /\ p = (p - off) + off
      BY <1>2, <1>3
    <2> QED BY <1>4, <2>1
  <1>8. \A q \in 1..m : n + q > off => \E i \in 1..n2 : n + q = i + off /\ event_log'[i] = evs[q]
    <2> TAKE q \in 1..m
    <2> HAVE n + q > off
    <2>1. n + q - off \in 1..n2 /\ n + q = (n + q - off) + off
      BY <1>2, <1>3
    <2> QED BY <1>5, <2>1
  <1>9. ASSUME NEW i \in 1..n2,
               \A j \in i + 1..n2 : event_log'[j].key # event_log'[i].key
        PROVE  Says(event_log'[i], kvs')
    <2>1. PICK p \in 1..n + m : p = i + off
      BY <1>2, <1>3
    <2>2. CASE p <= n
      <3>1. event_log'[i] = event_log[p] /\ p \in 1..n
        BY <1>2, <1>4, <2>1, <2>2
      <3>2. \A j \in p + 1..n : event_log[j].key # event_log[p].key
        <4> TAKE j \in p + 1..n
        <4>1. PICK j2 \in 1..n2 : j = j2 + off /\ event_log'[j2] = event_log[j]
          BY <1>2, <1>3, <1>7, <2>1
        <4>2. j2 \in i + 1..n2
          BY <1>2, <1>3, <2>1, <4>1
        <4> QED
          BY <4>1, <4>2, <1>9, <3>1
      <3>3. event_log[p].key \notin K
        <4>1. SUFFICES ASSUME NEW q \in 1..m, evs[q].key = event_log[p].key PROVE FALSE
          BY DEF Tells
        <4>2. PICK j2 \in 1..n2 : n + q = j2 + off /\ event_log'[j2] = evs[q]
          <5>1. n + q > off
            BY <1>2, <1>3, <2>1, <2>2
          <5> QED
            BY <5>1, <1>8
        <4>3. j2 \in i + 1..n2
          BY <1>2, <1>3, <2>1, <2>2, <4>2
        <4> QED
          BY <4>1, <4>2, <4>3, <1>9, <3>1
      <3>4. Says(event_log[p], kvs)
        BY <3>1, <3>2 DEF LogFaithful, Says
      <3> QED
        BY <3>1, <3>3, <3>4 DEF Says, Tells
    <2>3. CASE p > n
      <3>1. PICK q \in 1..m : n + q = p
        <4>1. p - n \in 1..m /\ n + (p - n) = p
          BY <1>2, <2>1, <2>3
        <4> QED
          BY ZenonT(30), <4>1
      <3>2. event_log'[i] = evs[q]
        BY <1>5, <2>1, <3>1
      <3>3. \A j \in q + 1..m : evs[j].key # evs[q].key
        <4> TAKE j \in q + 1..m
        <4>1. PICK j2 \in 1..n2 : n + j = j2 + off /\ event_log'[j2] = evs[j]
          <5>1. j \in 1..m /\ n + j > off
            BY <1>2, <1>3, <2>1, <3>1
          <5> QED
            BY <5>1, <1>8
        <4>2. j2 \in i + 1..n2
          BY <1>2, <1>3, <2>1, <3>1, <4>1
        <4> QED
          BY <4>1, <4>2, <1>9, <3>2
      <3> QED
        BY <3>2, <3>3 DEF Tells
    <2> QED
      BY <2>1, <2>2, <2>3, <1>2
  <1>10. ASSUME NEW k \in DOMAIN kvs'
         PROVE  \/ kvs'[k].mod_revision <= revision' - n2
                \/ \E i \in 1..n2 : event_log'[i].key = k /\ event_log'[i].rev = kvs'[k].mod_revision
    <2>1. CASE k \in K
      <3>1. PICK i \in 1..m : evs[i].key = k /\ kvs'[k].mod_revision = evs[i].rev
        BY <1>10, <2>1 DEF Tells
      <3>2. CASE n + i > off
        BY SMTT(20), <3>1, <3>2, <1>8
      <3>3. CASE n + i <= off
        BY <3>1, <3>3, <1>2, <1>3 DEF Logs
      <3> QED
        BY <3>2, <3>3, <1>2, <1>3
    <2>2. CASE k \notin K
      <3>1. k \in DOMAIN kvs /\ kvs'[k] = kvs[k]
        BY <1>10, <2>2 DEF Tells
      <3>2. CASE kvs[k].mod_revision <= revision - n
        <4>1. kvs[k].mod_revision \in Nat
          BY <3>1, ServerAssumption DEF ServerTypeOK, Entry
        <4> QED
          BY <4>1, <3>1, <3>2, <1>1, <1>2 DEF Logs
      <3>3. CASE \E i \in 1..n : event_log[i].key = k /\ event_log[i].rev = kvs[k].mod_revision
        <4>1. PICK i \in 1..n : event_log[i].key = k /\ event_log[i].rev = kvs[k].mod_revision
          BY <3>3
        <4>2. CASE i > off
          BY <4>1, <4>2, <3>1, <1>7
        <4>3. CASE i <= off
          BY <4>1, <4>3, <3>1, <1>2, <1>3, <1>6 DEF Logs
        <4> QED
          BY <4>2, <4>3, <1>3
      <3> QED
        BY <3>1, <3>2, <3>3 DEF LogFaithful
    <2> QED
      BY <2>1, <2>2
  <1> QED
    BY <1>1, <1>9, <1>10 DEF LogFaithful, Says
===============================================================================
