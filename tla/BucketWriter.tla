---------------------------- MODULE BucketWriter ----------------------------
(***************************************************************************)
(* How a worker writes a prediction to a bucket (loudml/bucket.py): the    *)
(* requests wait in _pending and are sent by the bulk, when there are      *)
(* enough of them, at least once per second, and at the end.               *)
(* save_timeseries_prediction puts the flag is_anomaly of each point in    *)
(* one dictionary of tags, the same for all points. The adapters in which  *)
(* a flagged prediction can be saved differ in what they do with it:       *)
(*   influx    keeps that dictionary in the pending request;               *)
(*   elastic   has a document per point, with what is in it;               *)
(*   mongo     too; its own enqueue never sends, only commit does;         *)
(*   opentsdb  has a request per value of a point, with a copy of it.      *)
(* They differ as well in what a failure leaves behind: see Taken.         *)
(***************************************************************************)
EXTENDS Naturals, Sequences

CONSTANTS
  NbRequests,   (* the requests made of the prediction                        *)
  BulkSize,     (* pending requests that are sent at once: 1000 in the code   *)
  Stores        (* the adapters looked at                                     *)

ASSUME WriterAssumption ==
  /\ NbRequests \in Nat /\ BulkSize \in Nat \ {0}
  /\ Stores \subseteq {"influx", "elastic", "mongo", "opentsdb"}

Numbers == 1..NbRequests

VARIABLES
  adapter,      (* the type of the bucket                                     *)
  pointOf,      (* the point that each request is made of                     *)
  anomaly,      (* the stats of the prediction: is the point abnormal?        *)
  next,         (* the request that is made next                              *)
  tags,         (* is_anomaly in the dictionary of the caller                 *)
  pending,      (* Bucket._pending                                            *)
  stored,       (* the requests the database has carried out, in this order   *)
  refused,      (* history: those it refused in an answer that was only logged *)
  due,          (* has a second passed since _last_commit?                    *)
  job           (* running, done, or failed with an exception of the adapter  *)

prediction == <<adapter, pointOf, anomaly>>
vars == <<prediction, next, tags, pending, stored, refused, due, job>>

KeepsTags == adapter = "influx"
SendsEarly == adapter # "mongo"
LogsRefusals == adapter = "opentsdb"

Requests == [nb : Numbers, anomaly : BOOLEAN]

TypeOK ==
  /\ adapter \in Stores
  /\ pointOf \in [Numbers -> Numbers]
  /\ anomaly \in [Numbers -> BOOLEAN]
  /\ next \in 1..(NbRequests + 1)
  /\ tags \in BOOLEAN
  /\ pending \in Seq(Requests)
  /\ stored \in Seq(Requests)
  /\ refused \subseteq Numbers
  /\ due \in BOOLEAN
  /\ job \in {"running", "done", "failed"}

\* The values of the points one after the other.
ValueByValue ==
  {f \in [Numbers -> Numbers] :
     \A nb \in Numbers :
       IF nb = 1 THEN f[nb] = 1 ELSE f[nb] \in {f[nb - 1], f[nb - 1] + 1}}

\* A request per point, or a request per value: their number differs, a value
\* that is not there makes none.
Init ==
  /\ adapter \in Stores
  /\ IF adapter = "opentsdb"
     THEN pointOf \in ValueByValue
     ELSE pointOf = [nb \in Numbers |-> nb]
  /\ anomaly \in [Numbers -> BOOLEAN]
  /\ next = 1
  /\ tags = FALSE
  /\ pending = <<>>
  /\ stored = <<>>
  /\ refused = {}
  /\ due = FALSE
  /\ job = "running"

\* A second passes.
Second ==
  /\ job = "running"
  /\ ~due
  /\ due' = TRUE
  /\ UNCHANGED <<prediction, next, tags, pending, stored, refused, job>>

-----------------------------------------------------------------------------
(* What the database makes of a bulk                                        *)

\* Where the adapter has kept the dictionary of the caller, is_anomaly is what
\* the dictionary says by now. As a mutant: an adapter that should have copied.
SentKept(requests) ==
  [i \in DOMAIN requests |-> [requests[i] EXCEPT !.anomaly = tags']]

\* insert_times_data has put the tags of each point in a document of its own.
SentCopied(requests) == requests

\* What send_bulk sends for the requests.
Sent(requests) == IF KeepsTags THEN SentKept(requests) ELSE SentCopied(requests)

\* Some of n requests, in their order: the positions of those that are taken.
All(n) == [i \in 1..n |-> i]
First(n) == {All(m) : m \in 0..n}
Some(n) ==
  {f \in UNION {[1..m -> 1..n] : m \in 0..n} :
     \A i, j \in DOMAIN f : i < j => f[i] < f[j]}

\* Those of n requests that are carried out when send_bulk raises, none of them
\* or all when only the answer is lost. MongoDB stops at the first that it
\* refuses; the others go on around it (the bulk helper of Elasticsearch, the
\* partial write of InfluxDB).
Taken(n) == IF adapter = "mongo" THEN First(n) ELSE Some(n)

\* Those that are when it returns: OpenTSDBClient.put logs a refusal.
TakenOrLogged(n) == IF LogsRefusals THEN Some(n) ELSE {All(n)}

\* The database carries out the requests at the positions f.
CarryOut(requests, f) ==
  stored' = stored \o [i \in DOMAIN f |-> Sent(requests)[f[i]]]

\* The numbers of the others.
Others(requests, f) ==
  {requests[i].nb : i \in {k \in DOMAIN requests : \A j \in DOMAIN f : f[j] # k}}

-----------------------------------------------------------------------------
(* The buffer                                                               *)

\* Mutant: a full bulk waits for the second to pass.
MustCommitOnTime(requests) == SendsEarly /\ due

\* must_commit, asked by enqueue.
MustCommit(requests) == SendsEarly /\ (Len(requests) >= BulkSize \/ due)

\* Mutant: the pending requests are not cleared after the call.
CommitNoClear(requests) ==
  /\ \E f \in TakenOrLogged(Len(requests)) :
       CarryOut(requests, f) /\ refused' = refused \cup Others(requests, f)
  /\ pending' = requests
  /\ due' = FALSE

\* commit: without pending requests nothing is sent. After a call that returns
\* the buffer is cleared.
Commit(requests) ==
  /\ \E f \in TakenOrLogged(Len(requests)) :
       CarryOut(requests, f) /\ refused' = refused \cup Others(requests, f)
  /\ pending' = <<>>
  /\ due' = FALSE

\* The call raises: the requests stay in the buffer, which ends with the job.
CommitFails(requests) ==
  /\ \E f \in Taken(Len(requests)) : CarryOut(requests, f)
  /\ pending' = requests
  /\ job' = "failed"
  /\ UNCHANGED <<refused, due>>

\* The request waits with the others: all that MongoBucket.enqueue does.
Hold(requests) == pending' = requests /\ UNCHANGED <<stored, refused, due>>

-----------------------------------------------------------------------------
(* save_timeseries_prediction                                               *)

\* The next request, made in a turn of the loop.
Made == [nb |-> next, anomaly |-> tags']

MakeRequest ==
  /\ job = "running"
  /\ next <= NbRequests
  /\ tags' = anomaly[pointOf[next]]
  /\ next' = next + 1
  /\ UNCHANGED prediction

\* insert_times_data: the request is enqueued, and may be the one for which the
\* bulk is sent.
Insert ==
  /\ MakeRequest
  /\ LET requests == Append(pending, Made) IN
       IF MustCommit(requests) THEN Commit(requests) ELSE Hold(requests)
  /\ UNCHANGED job

\* The bulk is sent for it and send_bulk raises: the job fails.
InsertFails ==
  /\ MakeRequest
  /\ LET requests == Append(pending, Made) IN
       MustCommit(requests) /\ CommitFails(requests)

\* The commit after the loop.
LastCommit ==
  /\ job = "running"
  /\ next > NbRequests
  /\ tags' = tags
  /\ Commit(pending)
  /\ job' = "done"
  /\ UNCHANGED <<prediction, next>>

LastCommitFails ==
  /\ job = "running"
  /\ next > NbRequests
  /\ pending # <<>>
  /\ tags' = tags
  /\ CommitFails(pending)
  /\ UNCHANGED <<prediction, next>>

Next == Second \/ Insert \/ InsertFails \/ LastCommit \/ LastCommitFails

Spec == Init /\ [][Next]_vars

-----------------------------------------------------------------------------
(* Properties                                                               *)

Stored == {stored[i].nb : i \in DOMAIN stored}
Pending == {pending[i].nb : i \in DOMAIN pending}

\* Requests are carried out in their order, none of them twice, even when the
\* job fails. Each one that was made was carried out, or waits, or was refused
\* in an answer that was logged, which only OpenTSDB's client does; it is but
\* one of these as long as no call has raised, and none waits when the job is
\* done.
WrittenOnceInOrder ==
  /\ \A i, j \in DOMAIN stored : i < j => stored[i].nb < stored[j].nb
  /\ Stored \cup Pending \cup refused = 1..(next - 1)
  /\ Stored \cap refused = {}
  /\ job # "failed" => Pending \cap (Stored \cup refused) = {}
  /\ job = "done" => pending = <<>> /\ next = NbRequests + 1
  /\ refused # {} => LogsRefusals

\* Where enqueue sends, the buffer never grows beyond a bulk.
PendingBounded ==
  SendsEarly =>
    /\ Len(pending) <= BulkSize
    /\ job = "running" => Len(pending) < BulkSize

\* docs/reference/getting-started.asciidoc: is_anomaly flags the data point as
\* abnormal or not. The database has the flag of each point.
FlagsAreRight ==
  \A i \in DOMAIN stored : stored[i].anomaly = anomaly[pointOf[stored[i].nb]]

\* It has, where the adapter copies the tags, whatever calls fail.
CopiedFlagsAreRight == ~KeepsTags => FlagsAreRight

\* The prediction of a job that is done is in the bucket. It is not where
\* OpenTSDB refuses a write.
AllStored == job = "done" => Stored = Numbers
=============================================================================
