-------------------------- MODULE MessageLogProofs --------------------------
(* Theorems about MessageLog, for every set of Sessions, ids, writers,     *)
(* grants, offers and keys.                                                *)
EXTENDS MessageLog, TLAPS

USE GrantAssumption, OfferAssumption DEF Head, NoHead

(* A fresh message is a Message.                                           *)
LEMMA NewMessageType ==
    ASSUME NEW ns \in [Sessions -> Nat], NEW w \in Writers, NEW id \in Ids,
           NEW body \in Body, NEW basis \in Head \cup {NoHead}
    PROVE  /\ NewMessage(ns, w, id, body, basis) \in Message
           /\ Grant[w].session \in Sessions
           /\ Advance(ns, Grant[w].session) \in [Sessions -> Nat]
<1>1. Grant[w] \in Grants OBVIOUS
<1>2. Grant[w].session \in Sessions /\ Grant[w].author \in STRING
        /\ Grant[w].source \in STRING
  BY <1>1 DEF Grants
<1>3. Advance(ns, Grant[w].session) \in [Sessions -> Nat]
  BY <1>2 DEF Advance
<1>4. NewMessage(ns, w, id, body, basis) \in Message
  BY <1>2 DEF NewMessage, Message
<1> QED BY <1>2, <1>3, <1>4

(* An accepted append keeps the numbering of every Session dense.          *)
LEMMA AppendDense ==
    ASSUME NEW ms \in SUBSET Message, NEW ns \in [Sessions -> Nat],
           NEW w \in Writers, NEW id \in Ids, NEW body \in Body,
           NEW basis \in Head \cup {NoHead},
           Dense(ms, ns), ~ Taken(ms, id)
    PROVE  Dense(ms \cup {NewMessage(ns, w, id, body, basis)},
                 Advance(ns, Grant[w].session))
<1> DEFINE new == NewMessage(ns, w, id, body, basis)
           s0 == Grant[w].session
           ns1 == Advance(ns, s0)
<1>1. /\ new \in Message /\ s0 \in Sessions /\ ns1 \in [Sessions -> Nat]
      /\ new.id = id /\ new.session = s0 /\ new.seq = ns[s0]
  BY NewMessageType DEF NewMessage
<1>2. \A s \in Sessions : ns1[s] = IF s = s0 THEN ns[s] + 1 ELSE ns[s]
  BY <1>1 DEF Advance
<1>3. \A m \in ms : m \in Message /\ m.session \in Sessions /\ m.seq \in Nat
  BY DEF Message
<1> HIDE DEF new, s0, ns1
<1>4. \A m \in ms \cup {new} : m.seq < ns1[m.session]
  BY <1>1, <1>2, <1>3 DEF Dense
<1>5. ASSUME NEW s \in Sessions, NEW q \in 0 .. (ns1[s] - 1)
      PROVE  \E m \in ms \cup {new} : m.session = s /\ m.seq = q
  <2>1. CASE s = s0 /\ q = ns[s0]
    BY <2>1, <1>1
  <2>2. CASE ~ (s = s0 /\ q = ns[s0])
    <3>1. q \in 0 .. (ns[s] - 1)
      BY <2>2, <1>1, <1>2
    <3> QED BY <3>1 DEF Dense
  <2> QED BY <2>1, <2>2
<1>6. ASSUME NEW m \in ms \cup {new}, NEW n \in ms \cup {new},
             m.id = n.id \/ (m.session = n.session /\ m.seq = n.seq)
      PROVE  m = n
  <2>1. \A x \in ms : x.id # id /\ ~ (x.session = s0 /\ x.seq = ns[s0])
    BY <1>1, <1>3 DEF Dense, Taken
  <2> QED BY <1>1, <1>6, <2>1 DEF Dense
<1> QED BY <1>4, <1>5, <1>6 DEF Dense, new, ns1, s0

(* An accepted tool result answers a call that is open, in its source.     *)
LEMMA AppendAnswers ==
    ASSUME NEW ms \in SUBSET Message, NEW ns \in [Sessions -> Nat],
           NEW w \in Writers, NEW id \in Ids, NEW body \in Body,
           NEW basis \in Head \cup {NoHead},
           Dense(ms, ns), Answers(ms),
           body.kind = "tool_result" => CheckCallResult(ms, w, body.ref)
    PROVE  Answers(ms \cup {NewMessage(ns, w, id, body, basis)})
<1> DEFINE new == NewMessage(ns, w, id, body, basis)
<1>1. /\ new.session = Grant[w].session /\ new.source = Grant[w].source
      /\ new.seq = ns[Grant[w].session] /\ new.body = body
  BY DEF NewMessage
<1>2. \A m \in ms : m.session = Grant[w].session => m.seq < new.seq
  BY <1>1 DEF Dense
<1> HIDE DEF new
<1>3. ASSUME NEW r \in ms \cup {new}, r.body.kind = "tool_result"
      PROVE  \E c \in ms \cup {new} :
                /\ c.id = r.body.ref[1] /\ c.body.kind = "output"
                /\ r.body.ref[2] \in c.body.calls
                /\ c.session = r.session /\ c.source = r.source
                /\ c.seq < r.seq
  <2>1. CASE r \in ms
    BY <1>3, <2>1 DEF Answers
  <2>2. CASE r = new
    BY <1>1, <1>2, <1>3, <2>2 DEF CheckCallResult, OfSource
  <2> QED BY <2>1, <2>2
<1>4. ASSUME NEW r \in ms \cup {new}, NEW q \in ms \cup {new},
             r.body.kind = "tool_result", q.body.kind = "tool_result",
             q.body.ref = r.body.ref
      PROVE  q = r
  <2>1. body.kind = "tool_result" =>
            \A m \in ms : ~ (m.body.kind = "tool_result" /\ m.body.ref = body.ref)
    BY DEF CheckCallResult
  <2> QED BY <1>1, <1>4, <2>1 DEF Answers
<1>5. Answers(ms \cup {new}) BY <1>3, <1>4 DEF Answers
<1> QED BY <1>5 DEF new

(* An append whose expected head is the head of its source saw everything. *)
LEMMA AppendSeen ==
    ASSUME NEW ms \in SUBSET Message, NEW ns \in [Sessions -> Nat],
           NEW w \in Writers, NEW id \in Ids, NEW body \in Body,
           NEW basis \in Head \cup {NoHead},
           Dense(ms, ns), Seen(ms),
           basis # NoHead => IsSourceHead(ms, w, basis)
    PROVE  Seen(ms \cup {NewMessage(ns, w, id, body, basis)})
<1> DEFINE new == NewMessage(ns, w, id, body, basis)
<1>1. /\ new.session = Grant[w].session /\ new.source = Grant[w].source
      /\ new.seq = ns[Grant[w].session] /\ new.basis = basis
      /\ new.seq \in Nat /\ new.session \in Sessions
  BY NewMessageType DEF NewMessage
<1>2. \A m \in ms : /\ m.session = new.session => m.seq < new.seq
                    /\ m.seq \in Nat
  BY <1>1 DEF Dense, Message
<1> HIDE DEF new
<1>3. ASSUME NEW m \in ms \cup {new}, m.basis # NoHead,
             NEW n \in ms \cup {new},
             n.session = m.session, n.source = m.source, n.seq < m.seq
      PROVE  n.seq <= m.basis
  <2>1. CASE m \in ms /\ n \in ms
    BY <1>3, <2>1 DEF Seen
  <2>2. CASE m \in ms /\ n = new
    BY <1>1, <1>2, <1>3, <2>2
  <2>3. CASE m = new /\ n \in ms
    BY <1>1, <1>3, <2>3 DEF IsSourceHead, OfSource
  <2>4. CASE m = new /\ n = new
    BY <1>1, <1>3, <2>4
  <2> QED BY <2>1, <2>2, <2>3, <2>4
<1>4. Seen(ms \cup {new}) BY <1>3 DEF Seen
<1> QED BY <1>4 DEF new

(* An accepted Control names a number that is already in use.              *)
LEMMA AppendLookBack ==
    ASSUME NEW ms \in SUBSET Message, NEW ns \in [Sessions -> Nat],
           NEW w \in Writers, NEW id \in Ids, NEW body \in Body,
           NEW basis \in Head \cup {NoHead},
           Dense(ms, ns), LookBack(ms),
           body.kind = "control" => body.through < ns[Grant[w].session]
    PROVE  LookBack(ms \cup {NewMessage(ns, w, id, body, basis)})
<1> DEFINE new == NewMessage(ns, w, id, body, basis)
<1>1. /\ new.session = Grant[w].session /\ new.body = body
      /\ new.seq = ns[Grant[w].session] /\ new.session \in Sessions
      /\ new.seq \in Nat
  BY NewMessageType DEF NewMessage
<1>2. body.kind = "control" => body.through \in Nat
  BY DEF Body, InputBody, OutputBody, ToolResultBody, ControlBody
<1> HIDE DEF new
<1>3. ASSUME NEW m \in ms \cup {new}, m.body.kind = "control"
      PROVE  /\ m.body.through < m.seq
             /\ \E n \in ms \cup {new} :
                   n.session = m.session /\ n.seq = m.body.through
  <2>1. CASE m \in ms
    BY <1>3, <2>1 DEF LookBack
  <2>2. CASE m = new
    <3>1. body.through \in 0 .. (ns[Grant[w].session] - 1)
      BY <1>1, <1>2, <1>3, <2>2
    <3> QED BY <1>1, <2>2, <3>1 DEF Dense
  <2> QED BY <2>1, <2>2
<1>4. LookBack(ms \cup {new}) BY <1>3 DEF LookBack
<1> QED BY <1>4 DEF new

(* One accepted append, to the tables or to a working copy of them.        *)
LEMMA AppendLogOK ==
    ASSUME NEW ms \in SUBSET Message, NEW ns \in [Sessions -> Nat],
           NEW w \in Writers, NEW id \in Ids, NEW body \in Body,
           NEW basis \in Head \cup {NoHead},
           LogOK(ms, ns), Accepts(ms, ns, w, id, body, basis)
    PROVE  LogOK(ms \cup {NewMessage(ns, w, id, body, basis)},
                 Advance(ns, Grant[w].session))
BY AppendDense, AppendAnswers, AppendSeen, AppendLookBack DEF LogOK, Accepts

(* Every step keeps the inductive invariant.                               *)
LEMMA LogInvStep == LogInv /\ [Next]_vars => LogInv'
<1> SUFFICES ASSUME LogInv, [Next]_vars PROVE LogInv' OBVIOUS
<1> USE DEF LogInv
<1> DEFINE TxType == [open : BOOLEAN, failed : BOOLEAN,
               messages : SUBSET Message, nextSeq : [Sessions -> Nat],
               records : [Keys -> Record], offered : SUBSET Ids]
<1>t. /\ messages \in SUBSET Message /\ nextSeq \in [Sessions -> Nat]
      /\ records \in [Keys -> Record] /\ active \in [Writers -> BOOLEAN]
      /\ receipts \in SUBSET Message /\ tx \in TxType
  BY DEF TypeOK
<1>n. NoTx \in TxType /\ ~ NoTx.open
  BY DEF NoTx, Record
<1>o. \A o \in Offers : o.w \in Writers /\ o.body \in Body
                          /\ o.basis \in Head \cup {NoHead}
  OBVIOUS
<1>1. ASSUME NEW o \in Offers, NEW id \in Ids,
             Append(o.w, id, o.body, o.basis)
      PROVE  LogInv'
  <2> DEFINE new == NewMessage(nextSeq, o.w, id, o.body, o.basis)
             s0 == Grant[o.w].session
  <2>1. /\ messages' = messages \cup {new}
        /\ nextSeq' = Advance(nextSeq, s0)
        /\ receipts' = receipts \cup {new}
        /\ records' = records /\ active' = active /\ tx' = tx /\ ~ tx.open
        /\ Accepts(messages, nextSeq, o.w, id, o.body, o.basis)
    BY <1>1 DEF Append, NewMessage
  <2>2. new \in Message /\ nextSeq' \in [Sessions -> Nat]
    BY <2>1, <1>t, <1>o, NewMessageType
  <2>3. LogOK(messages', nextSeq')
    BY <2>1, <1>t, <1>o, AppendLogOK
  <2> HIDE DEF new, s0
  <2>4. TypeOK'
    BY <2>1, <2>2, <1>t DEF TypeOK
  <2>5. RecordsBacked'
    BY <2>1 DEF RecordsBacked, Backed
  <2>6. ReceiptsDurable' /\ TxOK'
    BY <2>1 DEF ReceiptsDurable, TxOK
  <2>7. LogOK(messages, nextSeq)'
    BY <2>3
  <2> QED BY <2>4, <2>5, <2>6, <2>7
<1>2. ASSUME NEW o \in Offers, NEW id \in Ids, Replay(o.w, id, o.body)
      PROVE  LogInv'
  <2>1. /\ UNCHANGED <<messages, nextSeq, records, active, tx>>
        /\ \E m \in messages : receipts' = receipts \cup {m}
    BY <1>2 DEF Replay
  <2> QED BY <2>1 DEF TypeOK, LogOK, RecordsBacked, Backed, ReceiptsDurable,
                      TxOK, Dense, Answers, Seen, LookBack, Taken
<1>3. ASSUME NEW w \in Writers, Expire(w)
      PROVE  LogInv'
  <2>1. /\ UNCHANGED <<messages, nextSeq, records, tx, receipts>>
        /\ active' = [active EXCEPT ![w] = FALSE] /\ ~ tx.open
    BY <1>3 DEF Expire
  <2>2. TypeOK' BY <2>1, <1>t DEF TypeOK
  <2> QED BY <2>1, <2>2 DEF LogOK, RecordsBacked, Backed, ReceiptsDurable,
                      TxOK, Dense, Answers, Seen, LookBack
<1>4. ASSUME TxBegin PROVE LogInv'
  <2>1. /\ UNCHANGED <<messages, nextSeq, records, active, receipts>>
        /\ tx' = [open |-> TRUE, failed |-> FALSE, messages |-> messages,
                  nextSeq |-> nextSeq, records |-> records, offered |-> {}]
    BY <1>4 DEF TxBegin
  <2>2. TypeOK' BY <2>1, <1>t DEF TypeOK
  <2>3. \A k \in Keys : records[k].version \in Int
    BY <1>t DEF Record, NoRecord
  <2>4. TxOK' BY <2>1, <2>3, <1>t DEF TxOK, LogOK, RecordsBacked, Backed,
                      Dense, Answers, Seen, LookBack, Taken
  <2> QED BY <2>1, <2>2, <2>4 DEF LogOK, RecordsBacked, Backed,
                      ReceiptsDurable, Dense, Answers, Seen, LookBack
<1>5. ASSUME NEW o \in Offers, NEW id \in Ids,
             TxAppend(o.w, id, o.body, o.basis)
      PROVE  LogInv'
  <2> DEFINE new == NewMessage(tx.nextSeq, o.w, id, o.body, o.basis)
             s0 == Grant[o.w].session
  <2>1. /\ UNCHANGED <<messages, nextSeq, records, active, receipts>>
        /\ tx.open /\ ~ tx.failed
    BY <1>5 DEF TxAppend
  <2>t. /\ tx.messages \in SUBSET Message /\ tx.nextSeq \in [Sessions -> Nat]
        /\ tx.records \in [Keys -> Record] /\ tx.offered \in SUBSET Ids
    BY <1>t
  <2>2. CASE /\ Accepts(tx.messages, tx.nextSeq, o.w, id, o.body, o.basis)
             /\ tx' = [tx EXCEPT !.messages = @ \cup {new},
                                 !.nextSeq = Advance(@, new.session),
                                 !.offered = @ \cup {id}]
    <3>1. /\ tx'.messages = tx.messages \cup {new}
          /\ tx'.nextSeq = Advance(tx.nextSeq, s0)
          /\ tx'.offered = tx.offered \cup {id}
          /\ tx'.records = tx.records /\ tx'.open /\ ~ tx'.failed
          /\ new.by = o.w /\ new.id = id
      BY <2>1, <2>2, <1>t DEF NewMessage
    <3>2. new \in Message /\ s0 \in Sessions
            /\ tx'.nextSeq \in [Sessions -> Nat]
      BY <3>1, <2>t, <1>o, NewMessageType
    <3>3. LogOK(tx.messages, tx.nextSeq)'
      <4>1. LogOK(tx.messages, tx.nextSeq) BY <2>1 DEF TxOK
      <4>2. LogOK(tx.messages \cup {new}, Advance(tx.nextSeq, s0))
        BY <4>1, <2>2, <2>t, <1>o, AppendLogOK
      <4> QED BY <4>2, <3>1
    <3>4. active[o.w] BY <2>2 DEF Accepts
    <3>5. \A s \in Sessions : tx.nextSeq[s] <= tx'.nextSeq[s]
      BY <3>1, <3>2, <2>t DEF Advance
    <3> HIDE DEF new, s0
    <3>6. TypeOK'
      BY <2>1, <2>2, <3>1, <3>2, <1>t, <2>t DEF TypeOK
    <3>7. \A s \in Sessions : nextSeq'[s] <= tx'.nextSeq[s]
      BY <2>1, <3>5, <3>2, <2>t, <1>t DEF TxOK
    <3>8. Backed(tx.messages, tx.records)'
      BY <2>1, <3>1 DEF TxOK, Backed
    <3>9. \A i \in tx'.offered : Taken(tx'.messages, i)
      BY <2>1, <3>1 DEF TxOK, Taken
    <3>10. /\ messages' \subseteq tx'.messages
           /\ \A m \in tx'.messages \ messages' : active'[m.by]
           /\ \A k \in Keys : records'[k].version <= tx'.records[k].version
      BY <2>1, <3>1, <3>4 DEF TxOK
    <3>11. TxOK'
      BY <3>3, <3>7, <3>8, <3>9, <3>10 DEF TxOK, Taken
    <3> QED BY <2>1, <3>6, <3>11 DEF LogOK, RecordsBacked, Backed,
                      ReceiptsDurable, Dense, Answers, Seen, LookBack
  <2>3. CASE /\ \E m \in tx.messages :
                    Replays(tx.messages, o.w, id, o.body, m)
             /\ tx' = [tx EXCEPT !.offered = @ \cup {id}]
    <3>1. Taken(tx.messages, id) BY <2>3 DEF Taken, Replays
    <3>2. TypeOK' BY <2>1, <2>3, <1>t, <2>t DEF TypeOK
    <3>3. /\ tx'.messages = tx.messages /\ tx'.nextSeq = tx.nextSeq
          /\ tx'.records = tx.records /\ tx'.offered = tx.offered \cup {id}
      BY <2>3, <1>t
    <3>4. TxOK' BY <2>1, <3>1, <3>3 DEF TxOK, LogOK, Backed,
                      Dense, Answers, Seen, LookBack, Taken
    <3> QED BY <2>1, <3>2, <3>4 DEF LogOK, RecordsBacked, Backed,
                      ReceiptsDurable, Dense, Answers, Seen, LookBack
  <2>4. CASE tx' = [tx EXCEPT !.failed = TRUE, !.offered = @ \cup {id}]
    <3>2. TypeOK' BY <2>1, <2>4, <1>t, <2>t DEF TypeOK
    <3>3. /\ tx'.messages = tx.messages /\ tx'.nextSeq = tx.nextSeq
          /\ tx'.records = tx.records /\ tx'.failed
      BY <2>4, <1>t
    <3>4. TxOK' BY <2>1, <3>3 DEF TxOK, LogOK, Backed,
                      Dense, Answers, Seen, LookBack
    <3> QED BY <2>1, <3>2, <3>4 DEF LogOK, RecordsBacked, Backed,
                      ReceiptsDurable, Dense, Answers, Seen, LookBack
  <2> QED BY <1>5, <2>2, <2>3, <2>4 DEF TxAppend
<1>6. ASSUME NEW k \in Keys, NEW id \in Ids, NEW v \in -1 .. MaxVersion,
             TxSave(k, id, v)
      PROVE  LogInv'
  <2>1. /\ UNCHANGED <<messages, nextSeq, records, active, receipts>>
        /\ tx.open /\ ~ tx.failed /\ id \in tx.offered
    BY <1>6 DEF TxSave
  <2>t. /\ tx.messages \in SUBSET Message /\ tx.nextSeq \in [Sessions -> Nat]
        /\ tx.records \in [Keys -> Record] /\ tx.offered \in SUBSET Ids
        /\ \A j \in Keys : records[j].version \in Int
                            /\ tx.records[j].version \in Int
    BY <1>t DEF Record, NoRecord
  <2>2. CASE /\ tx.records[k].version = v
             /\ tx' = [tx EXCEPT !.records[k] =
                            [version |-> v + 1, value |-> <<id>>]]
    <3>1. /\ tx'.messages = tx.messages /\ tx'.nextSeq = tx.nextSeq
          /\ tx'.offered = tx.offered /\ tx'.open /\ ~ tx'.failed
          /\ tx'.records = [tx.records EXCEPT ![k] =
                                [version |-> v + 1, value |-> <<id>>]]
      BY <2>1, <2>2, <1>t
    <3>2. [version |-> v + 1, value |-> <<id>>] \in Record
      BY DEF Record
    <3>3. TypeOK' BY <2>1, <2>2, <3>2, <1>t, <2>t DEF TypeOK
    <3>4. Taken(tx.messages, id) BY <2>1 DEF TxOK
    <3>5. Backed(tx.messages, tx.records)'
      BY <2>1, <3>1, <3>4, <2>t DEF TxOK, Backed, Taken
    <3>6. \A j \in Keys : records'[j].version <= tx'.records[j].version
      BY <2>1, <2>2, <3>1, <2>t DEF TxOK
    <3>7. TxOK' BY <2>1, <3>1, <3>5, <3>6 DEF TxOK, LogOK,
                      Dense, Answers, Seen, LookBack, Taken
    <3> QED BY <2>1, <3>3, <3>7 DEF LogOK, RecordsBacked, Backed,
                      ReceiptsDurable, Dense, Answers, Seen, LookBack
  <2>3. CASE tx' = [tx EXCEPT !.failed = TRUE]
    <3>2. TypeOK' BY <2>1, <2>3, <1>t, <2>t DEF TypeOK
    <3>3. /\ tx'.messages = tx.messages /\ tx'.nextSeq = tx.nextSeq
          /\ tx'.records = tx.records /\ tx'.failed
      BY <2>3, <1>t
    <3>4. TxOK' BY <2>1, <3>3 DEF TxOK, LogOK, Backed,
                      Dense, Answers, Seen, LookBack
    <3> QED BY <2>1, <3>2, <3>4 DEF LogOK, RecordsBacked, Backed,
                      ReceiptsDurable, Dense, Answers, Seen, LookBack
  <2> QED BY <1>6, <2>2, <2>3 DEF TxSave
<1>7. ASSUME TxCommit PROVE LogInv'
  <2>1. /\ messages' = tx.messages /\ nextSeq' = tx.nextSeq
        /\ records' = tx.records /\ active' = active /\ tx' = NoTx
        /\ receipts' = receipts \cup (tx.messages \ messages)
        /\ tx.open
    BY <1>7 DEF TxCommit
  <2>2. TypeOK' BY <2>1, <1>n, <1>t DEF TypeOK
  <2>3. LogOK(messages, nextSeq)' BY <2>1 DEF TxOK
  <2>4. RecordsBacked' BY <2>1 DEF TxOK, RecordsBacked
  <2>5. ReceiptsDurable' BY <2>1 DEF TxOK, ReceiptsDurable
  <2>6. TxOK' BY <2>1, <1>n DEF TxOK
  <2> QED BY <2>2, <2>3, <2>4, <2>5, <2>6
<1>8. ASSUME TxRollback \/ Restart PROVE LogInv'
  <2>1. /\ UNCHANGED <<messages, nextSeq, records, receipts>>
        /\ active' \in [Writers -> BOOLEAN] /\ tx' = NoTx
    BY <1>8, <1>t DEF TxRollback, Restart
  <2>2. TypeOK' BY <2>1, <1>n, <1>t DEF TypeOK
  <2>3. TxOK' BY <2>1, <1>n DEF TxOK
  <2> QED BY <2>1, <2>2, <2>3 DEF LogOK, RecordsBacked, Backed,
                      ReceiptsDurable, Dense, Answers, Seen, LookBack
<1>9. CASE UNCHANGED vars
  BY <1>9 DEF vars, TypeOK, LogOK, RecordsBacked, Backed, ReceiptsDurable,
              TxOK, Dense, Answers, Seen, LookBack, Taken
<1> QED BY <1>1, <1>2, <1>3, <1>4, <1>5, <1>6, <1>7, <1>8, <1>9 DEF Next

(* The initial state: empty tables.                                        *)
LEMMA LogInvInit == Init => LogInv
<1> SUFFICES ASSUME Init PROVE LogInv OBVIOUS
<1>1. TypeOK
  BY DEF Init, TypeOK, NoTx, Record
<1>2. ~ tx.open /\ messages = {} /\ receipts = {}
        /\ nextSeq = [s \in Sessions |-> 0] /\ records = [k \in Keys |-> NoRecord]
  BY DEF Init, NoTx
<1>3. LogOK(messages, nextSeq)
  BY <1>2 DEF LogOK, Dense, Answers, Seen, LookBack
<1>4. RecordsBacked /\ ReceiptsDurable /\ TxOK
  BY <1>2 DEF RecordsBacked, Backed, ReceiptsDurable, TxOK
<1> QED BY <1>1, <1>3, <1>4 DEF LogInv

(* The inductive invariant holds in every state of every run.              *)
THEOREM LogInvariant == Spec => []LogInv
BY LogInvInit, LogInvStep, PTL DEF Spec

(* Sequence numbers of a Session are dense and never reused, over every    *)
(* interleaving of appends, transactions, rollbacks and restarts.          *)
THEOREM SeqDenseAlways == Spec => []SeqDense
<1>1. LogInv => SeqDense BY DEF LogInv, LogOK, SeqDense
<1> QED BY <1>1, LogInvariant, PTL

(* A tool call has at most one result, after the call and in its source.   *)
THEOREM OneResultAlways == Spec => []ResultsAnswerOneCall
<1>1. LogInv => ResultsAnswerOneCall BY DEF LogInv, LogOK, ResultsAnswerOneCall
<1> QED BY <1>1, LogInvariant, PTL

(* No message appended with an expected head skips over an unseen message  *)
(* of its source.                                                          *)
THEOREM NoUnseenPrefixAlways == Spec => []NoUnseenPrefix
<1>1. LogInv => NoUnseenPrefix BY DEF LogInv, LogOK, NoUnseenPrefix
<1> QED BY <1>1, LogInvariant, PTL

(* A Control never names its own position or a later one.                  *)
THEOREM ControlsLookBackAlways == Spec => []ControlsLookBack
<1>1. LogInv => ControlsLookBack BY DEF LogInv, LogOK, ControlsLookBack
<1> QED BY <1>1, LogInvariant, PTL

(* What an append returned to its caller is committed, as it was returned. *)
THEOREM ReceiptsDurableAlways == Spec => []ReceiptsDurable
<1>1. LogInv => ReceiptsDurable BY DEF LogInv
<1> QED BY <1>1, LogInvariant, PTL

(* Owner records point at committed messages only.                         *)
THEOREM RecordsBackedAlways == Spec => []RecordsBacked
<1>1. LogInv => RecordsBacked BY DEF LogInv
<1> QED BY <1>1, LogInvariant, PTL

(* A step never rewrites a committed row, never lowers next_seq or a       *)
(* record version, and never adds a row for an expired writer.             *)
THEOREM AppendOnlyAlways == Spec => AppendOnly
<1> DEFINE Grows ==
       /\ messages \subseteq messages'
       /\ \A m \in messages' \ messages : active[m.by]
       /\ \A s \in Sessions : nextSeq[s] <= nextSeq'[s]
       /\ \A k \in Keys : records[k].version <= records'[k].version
<1>1. LogInv /\ [Next]_vars => [Grows]_vars
  <2> SUFFICES ASSUME LogInv, Next PROVE Grows
    BY DEF vars
  <2>t. /\ nextSeq \in [Sessions -> Nat]
        /\ \A k \in Keys : records[k].version \in Int
    BY DEF LogInv, TypeOK, Record, NoRecord
  <2>1. ASSUME NEW o \in Offers, NEW id \in Ids,
               Append(o.w, id, o.body, o.basis)
        PROVE  Grows
    <3>1. Grant[o.w].session \in Sessions
      BY DEF Grants
    <3> QED BY <2>1, <2>t, <3>1 DEF Append, Accepts, Advance, NewMessage
  <2>2. CASE TxCommit
    BY <2>2 DEF TxCommit, LogInv, TxOK
  <2>3. CASE UNCHANGED <<messages, nextSeq, records>>
    BY <2>3, <2>t
  <2> QED BY <2>1, <2>2, <2>3
          DEF Next, Replay, Expire, TxBegin, TxAppend, TxSave, TxRollback, Restart
<1> QED BY <1>1, LogInvariant, PTL DEF Spec, AppendOnly
=============================================================================
