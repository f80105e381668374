----------------------------- MODULE MessageLog -----------------------------
(***************************************************************************)
(* The durable authority of the reply chain: session/log.py.  One SQLite   *)
(* database holds the messages of every Session, the next sequence number  *)
(* of each Session and the versioned records of the owner stores.          *)
(* MessageWriter.append writes one message in one transaction;             *)
(* OwnerStore.transact runs a synchronous callback that may append         *)
(* messages and save records, all of which commit or roll back together.   *)
(*                                                                         *)
(* A transaction is modelled step by step on a working copy (tx), because  *)
(* its callback is arbitrary owner code that may catch the error of one    *)
(* operation and carry on with the next.  The log's lock is held from      *)
(* TxBegin to TxEnd, so nothing but the callback (or a crash) runs then.   *)
(***************************************************************************)
EXTENDS Integers

CONSTANTS
    Sessions,   \* Session keys
    Ids,        \* message ids offered by callers (global primary key)
    Indexes,    \* part positions that may hold a ToolCall
    Texts,      \* contents that tell two bodies of one kind apart
    Writers,    \* writer objects handed out by MessageLog.writer
    Grant,      \* Grant[w]: what the writer w is bound to
    Keys,       \* keys of owner records
    Offers,     \* what callers append: writer, body, expected_source_head
    MaxVersion  \* bound on record versions

VARIABLES
    messages,   \* committed rows of table messages
    nextSeq,    \* sessions.next_seq
    records,    \* owner_records: key -> version and value
    active,     \* MessageWriter._active
    tx,         \* the open transaction, a working copy of the tables
    receipts    \* history: every Message returned to a caller by a commit

vars == <<messages, nextSeq, records, active, tx, receipts>>

-----------------------------------------------------------------------------
(* Bodies: session/message.py.  Contents are abstracted to Texts; of the   *)
(* parts of an Output only the positions of its ToolCalls matter.          *)

CallRefs == Ids \X Indexes
NoCall == <<>>

InputBody == [kind : {"input"}, text : Texts]

OutputBody ==
    {b \in [kind : {"output"}, text : Texts, calls : SUBSET Indexes,
            finish : {"continue", "complete", "quiet"}] :
        b.calls # {} => b.finish = "continue"}

ToolResultBody == [kind : {"tool_result"}, text : Texts, ref : CallRefs]

ControlBody ==
    [kind : {"control"}, through : Nat,
     action : {"pause", "resume", "abandon", "failure"}]

Body == InputBody \cup OutputBody \cup ToolResultBody \cup ControlBody

Kinds == {"input", "output", "tool_result", "control"}

(* MessageLog.writer: a writer of tool results is bound to one call.  A    *)
(* writer ofTask was handed to a task, whose closing expires it.           *)
Grants ==
    {g \in [session : Sessions, author : STRING, source : STRING,
            kinds : SUBSET Kinds, call : CallRefs \cup {NoCall},
            proposesCalls : BOOLEAN, ofTask : BOOLEAN] :
        "tool_result" \in g.kinds => g.call # NoCall}

ASSUME GrantAssumption == Grant \in [Writers -> Grants]

(* basis records the expected_source_head of the append, by the writer:    *)
(* both are history, the code keeps neither.                               *)
NoHead == -2
Head == {h \in Int : h >= -1}

Message ==
    [id : Ids, session : Sessions, seq : Nat, author : STRING,
     source : STRING, body : Body, by : Writers, basis : Head \cup {NoHead}]

ASSUME OfferAssumption ==
    /\ Offers \subseteq [w : Writers, body : Body, basis : Head \cup {NoHead}]
    /\ MaxVersion \in Nat

NoRecord == [version |-> -1, value |-> <<>>]
Record == [version : Nat, value : {<<i>> : i \in Ids}] \cup {NoRecord}

-----------------------------------------------------------------------------
(* MessageWriter._append on the tables (ms, ns).                            *)

Granted(w, body) ==
    /\ body.kind \in Grant[w].kinds
    /\ body.kind = "tool_result" => body.ref = Grant[w].call

OfSource(ms, w) ==
    {m \in ms : m.session = Grant[w].session /\ m.source = Grant[w].source}

IsSourceHead(ms, w, h) ==
    /\ h = -1 \/ \E m \in OfSource(ms, w) : m.seq = h
    /\ \A m \in OfSource(ms, w) : m.seq <= h

(* Mutant: the index of earlier results is not consulted.                  *)
CheckCallResult_Repeated(ms, w, ref) ==
    \E m \in OfSource(ms, w) :
        /\ m.id = ref[1]
        /\ m.body.kind = "output"
        /\ ref[2] \in m.body.calls

(* The call is a ToolCall part of an Output of the writer's Session and    *)
(* source, and no row answers it yet.                                      *)
CheckCallResult(ms, w, ref) ==
    /\ \E m \in OfSource(ms, w) :
          /\ m.id = ref[1]
          /\ m.body.kind = "output"
          /\ ref[2] \in m.body.calls
    /\ ~ \E m \in ms : m.body.kind = "tool_result" /\ m.body.ref = ref

CheckParts(w, body) ==
    body.kind = "output" /\ body.calls # {} => Grant[w].proposesCalls

Taken(ms, id) == \E m \in ms : m.id = id

(* A repeated id with the same Session, author, source and body is a       *)
(* replay: the stored message is the receipt, even for an expired writer.  *)
Replays(ms, w, id, body, m) ==
    /\ Granted(w, body)
    /\ m \in ms
    /\ m.id = id
    /\ m.session = Grant[w].session
    /\ m.author = Grant[w].author
    /\ m.source = Grant[w].source
    /\ m.body = body

(* Mutants: an expired writer commits; the source head is not compared;    *)
(* a Control may name a prefix that does not exist yet.                    *)
Accepts_Expired(ms, ns, w, id, body, basis) ==
    /\ Granted(w, body)
    /\ ~ Taken(ms, id)
    /\ basis # NoHead => IsSourceHead(ms, w, basis)
    /\ CheckParts(w, body)
    /\ body.kind = "tool_result" => CheckCallResult(ms, w, body.ref)
    /\ body.kind = "control" => body.through < ns[Grant[w].session]

Accepts_StaleHead(ms, ns, w, id, body, basis) ==
    /\ Granted(w, body)
    /\ ~ Taken(ms, id)
    /\ active[w]
    /\ CheckParts(w, body)
    /\ body.kind = "tool_result" => CheckCallResult(ms, w, body.ref)
    /\ body.kind = "control" => body.through < ns[Grant[w].session]

(* What is left of a commit when every check passes.  basis = NoHead is    *)
(* a call without expected_source_head.                                    *)
Accepts(ms, ns, w, id, body, basis) ==
    /\ Granted(w, body)
    /\ ~ Taken(ms, id)
    /\ active[w]
    /\ basis # NoHead => IsSourceHead(ms, w, basis)
    /\ CheckParts(w, body)
    /\ body.kind = "tool_result" => CheckCallResult(ms, w, body.ref)
    /\ body.kind = "control" => body.through < ns[Grant[w].session]

NewMessage(ns, w, id, body, basis) ==
    [id |-> id, session |-> Grant[w].session, seq |-> ns[Grant[w].session],
     author |-> Grant[w].author, source |-> Grant[w].source, body |-> body,
     by |-> w, basis |-> basis]

Advance(ns, s) == [ns EXCEPT ![s] = @ + 1]

NoTx ==
    [open |-> FALSE, failed |-> FALSE, messages |-> {},
     nextSeq |-> [s \in Sessions |-> 0],
     records |-> [k \in Keys |-> NoRecord], offered |-> {}]

-----------------------------------------------------------------------------
Init ==
    /\ messages = {}
    /\ nextSeq = [s \in Sessions |-> 0]
    /\ records = [k \in Keys |-> NoRecord]
    /\ active = [w \in Writers |-> TRUE]
    /\ tx = NoTx
    /\ receipts = {}

(* MessageWriter.append outside a transaction; a refused append changes    *)
(* nothing and is not a step.                                              *)
Append(w, id, body, basis) ==
    LET m == NewMessage(nextSeq, w, id, body, basis)
    IN  /\ ~ tx.open
        /\ Accepts(messages, nextSeq, w, id, body, basis)
        /\ messages' = messages \cup {m}
        /\ nextSeq' = Advance(nextSeq, m.session)
        /\ receipts' = receipts \cup {m}
        /\ UNCHANGED <<records, active, tx>>

Replay(w, id, body) ==
    /\ ~ tx.open
    /\ \E m \in messages :
          /\ Replays(messages, w, id, body, m)
          /\ receipts' = receipts \cup {m}
    /\ UNCHANGED <<messages, nextSeq, records, active, tx>>

(* MessageWriter.expire, the cleanup of a closed task.                     *)
Expire(w) ==
    /\ ~ tx.open
    /\ Grant[w].ofTask
    /\ active[w]
    /\ active' = [active EXCEPT ![w] = FALSE]
    /\ UNCHANGED <<messages, nextSeq, records, tx, receipts>>

(* OwnerStore.transact / MessageLog._write: BEGIN IMMEDIATE.                *)
TxBegin ==
    /\ ~ tx.open
    /\ tx' = [open |-> TRUE, failed |-> FALSE, messages |-> messages,
              nextSeq |-> nextSeq, records |-> records, offered |-> {}]
    /\ UNCHANGED <<messages, nextSeq, records, active, receipts>>

(* Mutant: a refused append does not mark the transaction failed.          *)
TxAppend_Unmarked(w, id, body, basis) ==
    LET m == NewMessage(tx.nextSeq, w, id, body, basis)
    IN  /\ tx.open
        /\ ~ tx.failed
        /\ \/ /\ Accepts(tx.messages, tx.nextSeq, w, id, body, basis)
              /\ tx' = [tx EXCEPT !.messages = @ \cup {m},
                                  !.nextSeq = Advance(@, m.session),
                                  !.offered = @ \cup {id}]
           \/ /\ ~ Accepts(tx.messages, tx.nextSeq, w, id, body, basis)
              /\ tx' = [tx EXCEPT !.offered = @ \cup {id}]
        /\ UNCHANGED <<messages, nextSeq, records, active, receipts>>

(* OwnerTransaction.append: offered is the set of ids the callback tried   *)
(* to append, whatever became of them.                                     *)
TxAppend(w, id, body, basis) ==
    LET m == NewMessage(tx.nextSeq, w, id, body, basis)
    IN  /\ tx.open
        /\ ~ tx.failed
        /\ \/ /\ Accepts(tx.messages, tx.nextSeq, w, id, body, basis)
              /\ tx' = [tx EXCEPT !.messages = @ \cup {m},
                                  !.nextSeq = Advance(@, m.session),
                                  !.offered = @ \cup {id}]
           \/ /\ \E o \in tx.messages : Replays(tx.messages, w, id, body, o)
              /\ tx' = [tx EXCEPT !.offered = @ \cup {id}]
           \/ /\ ~ Accepts(tx.messages, tx.nextSeq, w, id, body, basis)
              /\ ~ \E o \in tx.messages : Replays(tx.messages, w, id, body, o)
              /\ tx' = [tx EXCEPT !.failed = TRUE, !.offered = @ \cup {id}]
        /\ UNCHANGED <<messages, nextSeq, records, active, receipts>>

(* OwnerTransaction.save: owners store the id of the message they appended *)
(* in the same transaction, under the version they read before.            *)
TxSave(k, id, expected) ==
    /\ tx.open
    /\ ~ tx.failed
    /\ id \in tx.offered
    /\ tx.records[k].version < MaxVersion
    /\ \/ /\ tx.records[k].version = expected
          /\ tx' = [tx EXCEPT !.records[k] =
                        [version |-> expected + 1, value |-> <<id>>]]
       \/ /\ tx.records[k].version # expected
          /\ tx' = [tx EXCEPT !.failed = TRUE]
    /\ UNCHANGED <<messages, nextSeq, records, active, receipts>>

(* The callback returned: OwnerTransaction._check_active refuses a failed  *)
(* transaction even when its callback swallowed the error.                 *)
TxCommit ==
    /\ tx.open
    /\ ~ tx.failed
    /\ messages' = tx.messages
    /\ nextSeq' = tx.nextSeq
    /\ records' = tx.records
    /\ receipts' = receipts \cup (tx.messages \ messages)
    /\ tx' = NoTx
    /\ UNCHANGED active

(* The callback raised, or returned from a failed transaction.             *)
TxRollback ==
    /\ tx.open
    /\ tx' = NoTx
    /\ UNCHANGED <<messages, nextSeq, records, active, receipts>>

(* The process dies: SQLite drops an open transaction, every writer object *)
(* is gone; the next process hands out fresh ones, here the same grants.   *)
Restart ==
    /\ active' = [w \in Writers |-> TRUE]
    /\ tx' = NoTx
    /\ UNCHANGED <<messages, nextSeq, records, receipts>>

Next ==
    \/ \E o \in Offers, id \in Ids :
          \/ Append(o.w, id, o.body, o.basis)
          \/ Replay(o.w, id, o.body)
          \/ TxAppend(o.w, id, o.body, o.basis)
    \/ \E w \in Writers : Expire(w)
    \/ \E k \in Keys, id \in Ids, v \in -1 .. MaxVersion : TxSave(k, id, v)
    \/ TxBegin
    \/ TxCommit
    \/ TxRollback
    \/ Restart

Spec == Init /\ [][Next]_vars

-----------------------------------------------------------------------------
(* Properties.                                                             *)

(* The tables, the writers and the working copy have their types.          *)
TypeOK ==
    /\ messages \in SUBSET Message
    /\ nextSeq \in [Sessions -> Nat]
    /\ records \in [Keys -> Record]
    /\ active \in [Writers -> BOOLEAN]
    /\ tx \in [open : BOOLEAN, failed : BOOLEAN,
               messages : SUBSET Message, nextSeq : [Sessions -> Nat],
               records : [Keys -> Record], offered : SUBSET Ids]
    /\ receipts \in SUBSET Message

(* The parts of the log's invariant, for the committed tables and for the  *)
(* working copy of an open transaction alike.                              *)
Dense(ms, ns) ==
    /\ \A m \in ms : m.seq < ns[m.session]
    /\ \A s \in Sessions : \A q \in 0 .. (ns[s] - 1) :
          \E m \in ms : m.session = s /\ m.seq = q
    /\ \A m, n \in ms :
          m.id = n.id \/ (m.session = n.session /\ m.seq = n.seq) => m = n

Answers(ms) ==
    \A r \in ms : r.body.kind = "tool_result" =>
        /\ \E c \in ms :
              /\ c.id = r.body.ref[1]
              /\ c.body.kind = "output"
              /\ r.body.ref[2] \in c.body.calls
              /\ c.session = r.session
              /\ c.source = r.source
              /\ c.seq < r.seq
        /\ \A q \in ms :
              q.body.kind = "tool_result" /\ q.body.ref = r.body.ref => q = r

Seen(ms) ==
    \A m \in ms : m.basis # NoHead =>
        \A n \in ms :
            n.session = m.session /\ n.source = m.source /\ n.seq < m.seq
                => n.seq <= m.basis

LookBack(ms) ==
    \A m \in ms : m.body.kind = "control" =>
        /\ m.body.through < m.seq
        /\ \E n \in ms : n.session = m.session /\ n.seq = m.body.through

Backed(ms, rs) ==
    \A k \in Keys : rs[k] # NoRecord => \E m \in ms : rs[k].value = <<m.id>>

(* Every Session numbers its messages 0, 1, 2, ... without a gap and       *)
(* without using a number or an id twice, although transactions roll back  *)
(* and the process restarts (log.py: next_seq, UNIQUE(session_key, seq)).  *)
SeqDense == Dense(messages, nextSeq)

(* A tool call is answered at most once, later than the Output that made   *)
(* it and in that Output's Session and source, whoever wrote the answer    *)
(* (log.py _check_call_result and the index message_call_result).          *)
ResultsAnswerOneCall == Answers(messages)

(* A message appended with an expected_source_head h stands directly after *)
(* h in its source: nothing the author did not see lies in between         *)
(* (log.py: the head comparison in _append).                               *)
NoUnseenPrefix == Seen(messages)

(* A Control closes a prefix that was already admitted when it was written *)
(* (message.py: through_seq < seq, and seq is next_seq).                   *)
ControlsLookBack == LookBack(messages)

(* Whatever an append ever returned to a caller is durable and stays as it *)
(* was returned, over rollbacks and restarts.                              *)
ReceiptsDurable == receipts \subseteq messages

(* A record never points at a message that was not committed with it or    *)
(* before it, even when the callback of the transaction caught the refusal *)
(* of its append and went on to save (OwnerTransaction._perform).          *)
RecordsBacked == Backed(messages, records)

(* Committed rows never change or disappear, next_seq and the record       *)
(* versions never go back, and every new row comes from a writer that is   *)
(* not expired.                                                            *)
AppendOnly ==
    [][/\ messages \subseteq messages'
       /\ \A m \in messages' \ messages : active[m.by]
       /\ \A s \in Sessions : nextSeq[s] <= nextSeq'[s]
       /\ \A k \in Keys : records[k].version <= records'[k].version]_vars

-----------------------------------------------------------------------------
(* The inductive invariant: the working copy is a legal log too, extends   *)
(* the committed one, and owes every id it was offered while not failed.   *)
LogOK(ms, ns) == Dense(ms, ns) /\ Answers(ms) /\ Seen(ms) /\ LookBack(ms)

TxOK ==
    tx.open =>
        /\ LogOK(tx.messages, tx.nextSeq)
        /\ Backed(tx.messages, tx.records)
        /\ messages \subseteq tx.messages
        /\ \A m \in tx.messages \ messages : active[m.by]
        /\ \A s \in Sessions : nextSeq[s] <= tx.nextSeq[s]
        /\ \A k \in Keys : records[k].version <= tx.records[k].version
        /\ ~ tx.failed => \A i \in tx.offered : Taken(tx.messages, i)

LogInv ==
    /\ TypeOK
    /\ LogOK(messages, nextSeq)
    /\ RecordsBacked
    /\ ReceiptsDurable
    /\ TxOK

=============================================================================
