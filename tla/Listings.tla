------------------------------ MODULE Listings ------------------------------
(* The resources of the REST API and the requests that list them: how each   *)
(* kind of resource is kept (in a directory of the storage or in a           *)
(* dictionary of the server), walked through by a request while others       *)
(* change it, sorted, and cut into the pages that a client reads one by one. *)
(*                                                                           *)
(* The HTTP thread has one request at a time.  Beside it, the timer thread   *)
(* forgets expired jobs, a worker saves a model, callbacks change jobs, and  *)
(* an evaluation walks through the hooks of its model while users change     *)
(* them.  A crash stops everything; directories stay.                        *)
EXTENDS Integers, FiniteSets, Sequences, SequencesExt

CONSTANTS
  Kinds,        (* the kinds of resources of this instance                    *)
  Names,        (* names or ids, in their alphabetical order                  *)
  Values,       (* values of the field that a listing is sorted by            *)
  PerPage,      (* per_page of the client                                     *)
  MaxChanges    (* bound: changes by users, trainings, expiries and crashes   *)

Disk == {"models", "templates"}
Memory == {"jobs", "buckets", "scheduled"}

ASSUME KindsAssumption == Kinds \subseteq Disk \cup Memory \cup {"hooks"}
ASSUME OrderAssumption == Names \subseteq Nat /\ Values \subseteq Nat
ASSUME ListingBounds == PerPage \in 1..100 /\ MaxChanges \in Nat

Absent == 0     \* what dict.get returns for a field that is not there

Idle == [on |-> "nothing"]
Failed == [on |-> "failed"]

VARIABLES
  kind,         (* which kind of resource this behaviour is about             *)
  query,        (* sort order of the client, whether `fields` keeps the key   *)
  table,        (* the resources, in the order the code meets them            *)
  stale,        (* jobs that ended more than jobs_max_ttl ago                 *)
  http,         (* the request under way that creates or deletes              *)
  walk,         (* the listing, or the loading of the hooks, under way        *)
  timer,        (* daemon_clear_jobs                                          *)
  saver,        (* a training, which saves its model at its end               *)
  client,       (* the client that reads all pages                            *)
  seen,         (* history: what the pages held, and what moved meanwhile     *)
  promised,     (* history: what was created by a request that was answered   *)
  changes       (* bounds the changes                                         *)

tableVars == <<table, seen>>
walkVars == <<walk, client>>
otherVars == <<kind, query>>
vars == <<otherVars, tableVars, stale, http, walkVars, timer, saver, promised,
          changes>>

Stored == {"whole", "empty", "foreign"}

\* Without the key there is nothing to sort by, in either direction.
Queries == {q \in [descending: BOOLEAN, keeps: BOOLEAN] : q.keeps \/ ~q.descending}

Entry(n, v) == [name |-> n, value |-> v, is |-> "whole"]

NamesOf(t) == {t[i].name : i \in DOMAIN t}

At(t, n) == CHOOSE i \in DOMAIN t : t[i].name = n

\* A dictionary keeps the order of insertion; list_models and list_templates
\* sort what glob finds.
Insert(t, e) ==
  IF kind \in Disk
  THEN InsertAt(t, Cardinality({i \in DOMAIN t : t[i].name < e.name}) + 1, e)
  ELSE Append(t, e)

Put(t, e) ==
  IF e.name \in NamesOf(t) THEN [t EXCEPT ![At(t, e.name)] = e] ELSE Insert(t, e)

Without(t, n) == RemoveAt(t, At(t, n))

\* The entries that can be read.
Whole(t) == {i \in DOMAIN t : t[i].is = "whole"}

WholeNames(t) == {t[i].name : i \in Whole(t)}

-----------------------------------------------------------------------------
(* Sorting and paging                                                        *)

\* The value that entry i is sorted by.  Templates without their settings stay
\* as they are listed.
SortKey(out, i) == IF query.keeps THEN out[i].value ELSE Absent

\* sorted() is stable, in both directions.
Before(out, i, j) ==
  \/ IF query.descending THEN SortKey(out, i) > SortKey(out, j)
                         ELSE SortKey(out, i) < SortKey(out, j)
  \/ SortKey(out, i) = SortKey(out, j) /\ i < j

Rank(out, i) == Cardinality({j \in DOMAIN out : Before(out, j, i)})

\* Mutant: pages counted from 1.
PageFromOne(out, p) ==
  {out[i].name : i \in {j \in DOMAIN out :
                          /\ Rank(out, j) > p * PerPage
                          /\ Rank(out, j) <= (p + 1) * PerPage}}

Page(out, p) ==
  {out[i].name : i \in {j \in DOMAIN out :
                          /\ Rank(out, j) >= p * PerPage
                          /\ Rank(out, j) < (p + 1) * PerPage}}

\* Values that Python does not compare: None with anything.
Unsortable(out) == Len(out) > 1 /\ \E i \in DOMAIN out : SortKey(out, i) = Absent

\* The sort keys of models are looked up in k['settings'], which the choice of
\* fields may have removed.
ModelsFail(out) == IF query.keeps THEN Unsortable(out) ELSE out # <<>>

TemplatesFail(out) == query.keeps /\ Unsortable(out)

BucketsFail(out) == Unsortable(out)

JobsFail(out) == Unsortable(out)

ScheduledFail(out) == Unsortable(out)

Fails(out) ==
  \/ kind = "models" /\ ModelsFail(out)
  \/ kind = "templates" /\ TemplatesFail(out)
  \/ kind = "buckets" /\ BucketsFail(out)
  \/ kind = "jobs" /\ JobsFail(out)
  \/ kind = "scheduled" /\ ScheduledFail(out)

-----------------------------------------------------------------------------
(* What the pages of a client hold                                           *)

\* The place of n in the sorted listing, 0: none.
Place(t, n) ==
  IF n \in WholeNames(t)
  THEN Cardinality({j \in Whole(t) : Before(t, j, At(t, n))}) + 1
  ELSE 0

Reading == IF client.done \/ (client.page = 0 /\ walk.on # "list") THEN {} ELSE Names

\* The table becomes t: while the client reads its pages, what has fallen, what
\* has risen, what has stayed.
Becomes(t) ==
  /\ table' = t
  /\ seen' = [seen EXCEPT
       !.fell = @ \cup {n \in Reading : Place(t, n) < Place(table, n)},
       !.rose = @ \cup {n \in Reading : Place(t, n) > Place(table, n)},
       !.always = IF client.done THEN @ ELSE @ \cap WholeNames(t),
       !.steady = @ \cap WholeNames(t),
       !.torn = @ \/ (walk.on = "list" /\ \E i \in DOMAIN table, j \in DOMAIN t :
                       t[j].name = table[i].name /\ t[j].value # table[i].value)]

\* What the configuration of a server may hold: one entry for a name. They are
\* in the order of their names here; requests make the other orders.
Configured ==
  {t \in SeqOf([name: Names, value: Values, is: {"whole"}], Cardinality(Names)) :
     \A i, j \in DOMAIN t : i < j => t[i].name < t[j].name}

\* The dictionaries of a server that has just started: the buckets of its
\* configuration; the scheduled jobs of its configuration and of its started
\* models; no jobs.
AtStart == IF kind \in {"buckets", "scheduled"} THEN Configured ELSE {<<>>}

Init ==
  /\ kind \in Kinds
  /\ query \in Queries
  /\ table \in AtStart /\ stale = {}
  /\ http = Idle /\ walk = Idle /\ timer = Idle /\ saver = Idle
  /\ client = [page |-> 0, done |-> FALSE]
  /\ seen = [once |-> {}, twice |-> {}, fell |-> {}, rose |-> {}, always |-> {},
             steady |-> {}, torn |-> FALSE]
  /\ promised = {} /\ changes = 0

\* The HTTP thread takes a request; hooks are walked through by a worker.
Walking == walk.on \in {"list", "get"}
Free == http = Idle /\ (Walking => kind = "hooks")

Counted == changes < MaxChanges /\ changes' = changes + 1

\* The names of a request, separated by semicolons; the bound is 2 of them.
Batches == {ns \in SeqOf(Names, 2) : ns # <<>> /\ IsInjective(ns)}

-----------------------------------------------------------------------------
(* Requests that create and change                                           *)

\* create_model and create_template: the name must be free; the directory is
\* made here, the settings are written by WriteSettings.
CreateDir(n, v) ==
  /\ kind \in Disk /\ Free /\ Counted
  /\ n \notin NamesOf(table)               \* ModelExists, TemplateExists: 409
  /\ Becomes(Insert(table, [name |-> n, value |-> v, is |-> "empty"]))
  /\ http' = [on |-> "create", name |-> n, value |-> v]
  /\ UNCHANGED <<otherVars, stale, walkVars, timer, saver, promised>>

\* Mutant: PATCH deletes the model and creates it again.
PatchAnew(n, v) ==
  /\ kind = "models" /\ Free /\ Counted
  /\ Becomes(Put(table, [name |-> n, value |-> v, is |-> "empty"]))
  /\ http' = [on |-> "create", name |-> n, value |-> v]
  /\ UNCHANGED <<otherVars, stale, walkVars, timer, saver, promised>>

\* PATCH saves the model whether it is there or not.
Patch(n, v) ==
  /\ kind = "models" /\ Free /\ Counted
  /\ IF n \in NamesOf(table) THEN UNCHANGED tableVars
     ELSE Becomes(Insert(table, [name |-> n, value |-> v, is |-> "empty"]))
  /\ http' = [on |-> "create", name |-> n, value |-> v]
  /\ UNCHANGED <<otherVars, stale, walkVars, timer, saver, promised>>

\* The settings are renamed into place, and the request is answered.
WriteSettings ==
  /\ http.on = "create"
  /\ Becomes(Put(table, Entry(http.name, http.value)))
  /\ promised' = promised \cup {http.name}
  /\ http' = Idle
  /\ UNCHANGED <<otherVars, stale, walkVars, timer, saver, changes>>

\* Job.start registers a job under an id of its own.
RegisterJob(n, v) ==
  /\ kind = "jobs" /\ Free /\ Counted
  /\ n \notin NamesOf(table) \cup stale
  /\ Becomes(Append(table, Entry(n, v)))
  /\ UNCHANGED <<otherVars, stale, http, walkVars, timer, saver, promised>>

\* A message, the callback or a request changes a job, from any thread; the
\* timer thread writes in a scheduled job how its request went.
ChangeJob(n, v) ==
  /\ kind \in {"jobs", "scheduled"} /\ Counted
  /\ n \in NamesOf(table)
  /\ Becomes(Put(table, Entry(n, v)))
  /\ UNCHANGED <<otherVars, stale, http, walkVars, timer, saver, promised>>

\* put_bucket adds or replaces.
PutBucket(n, v) ==
  /\ kind = "buckets" /\ Free /\ Counted
  /\ Becomes(Put(table, Entry(n, v)))
  /\ UNCHANGED <<otherVars, stale, http, walkVars, timer, saver, promised>>

\* add_new_scheduled_job replaces the entry, in its place in the dictionary.
PutScheduled(n, v) ==
  /\ kind = "scheduled" /\ Free /\ Counted
  /\ Becomes(Put(table, Entry(n, v)))
  /\ UNCHANGED <<otherVars, stale, http, walkVars, timer, saver, promised>>

\* POST of a hook renames its file into place.
SetHook(n, v) ==
  /\ kind = "hooks" /\ Free /\ Counted
  /\ Becomes(Put(table, Entry(n, v)))
  /\ promised' = promised \cup {n}
  /\ UNCHANGED <<otherVars, stale, http, walkVars, timer, saver>>

-----------------------------------------------------------------------------
(* Requests that delete, one name after the other                            *)

\* DELETE of models and templates; each name is removed by the next two
\* actions.
Delete(ns) ==
  /\ kind \in Disk /\ Free /\ Counted
  /\ http' = [on |-> "delete", names |-> ns]
  /\ UNCHANGED <<otherVars, tableVars, stale, walkVars, timer, saver, promised>>

\* rmtree removes the files.  A name that is missing ends the request by 404.
RemoveFiles ==
  /\ http.on = "delete"
  /\ LET n == Head(http.names) IN
       \/ /\ n \in NamesOf(table)
          /\ Becomes([table EXCEPT ![At(table, n)].is = "empty"])
          /\ promised' = promised \ {n}
          /\ http' = [http EXCEPT !.on = "rmdir"]
       \/ /\ n \notin NamesOf(table)
          /\ http' = Idle
          /\ UNCHANGED <<tableVars, promised>>
  /\ UNCHANGED <<otherVars, stale, walkVars, timer, saver, changes>>

\* rmtree removes the directory: an error if a worker has written settings to
\* it or, see SaveCheckpoint, a checkpoint.
RemoveDir ==
  /\ http.on = "rmdir"
  /\ LET n == Head(http.names) rest == Tail(http.names) IN
       \/ /\ table[At(table, n)].is = "empty"
          /\ Becomes(Without(table, n))
          /\ http' = IF rest = <<>> THEN Idle
                     ELSE [on |-> "delete", names |-> rest]
       \/ /\ table[At(table, n)].is # "empty"
          /\ http' = Idle
          /\ UNCHANGED tableVars
  /\ UNCHANGED <<otherVars, stale, walkVars, timer, saver, promised, changes>>

RemoveDirFails ==
  /\ http.on = "full"
  /\ http' = Idle
  /\ UNCHANGED <<otherVars, tableVars, stale, walkVars, timer, saver, promised, changes>>

\* DELETE of buckets and of scheduled jobs takes them out of their dictionary.
DeleteEntries(ns) ==
  /\ kind \in {"buckets", "scheduled"} /\ Free /\ Counted
  /\ http' = [on |-> "pop", names |-> ns]
  /\ UNCHANGED <<otherVars, tableVars, stale, walkVars, timer, saver, promised>>

\* A bucket that is missing ends the request by 404, a scheduled job that is
\* missing is ignored.
RemoveEntry ==
  /\ http.on = "pop"
  /\ LET n == Head(http.names) rest == Tail(http.names)
         missing == n \notin NamesOf(table)
     IN /\ IF missing THEN UNCHANGED tableVars ELSE Becomes(Without(table, n))
        /\ http' = IF rest = <<>> \/ (missing /\ kind = "buckets") THEN Idle
                   ELSE [on |-> "pop", names |-> rest]
  /\ UNCHANGED <<otherVars, stale, walkVars, timer, saver, promised, changes>>

\* DELETE of all scheduled jobs.
ClearScheduled ==
  /\ kind = "scheduled" /\ Free /\ Counted
  /\ Becomes(<<>>)
  /\ UNCHANGED <<otherVars, stale, http, walkVars, timer, saver, promised>>

DeleteHook(n) ==
  /\ kind = "hooks" /\ Free /\ Counted
  /\ n \in NamesOf(table)                  \* else 404
  /\ Becomes(Without(table, n))
  /\ promised' = promised \ {n}
  /\ UNCHANGED <<otherVars, stale, http, walkVars, timer, saver>>

-----------------------------------------------------------------------------
(* Walks: listings, GET by names, and the hooks of an evaluation             *)

Begin(on, ns) ==
  /\ ~Walking /\ (kind = "hooks" \/ http = Idle)
  /\ walk' = [on |-> on, todo |-> ns, size |-> Len(table), out |-> <<>>]
  /\ UNCHANGED <<otherVars, table, stale, http, client, timer, saver, promised,
                 changes>>

\* A walk through everything begins with the names: the directories, or the
\* iterator of the dictionary, which remembers its size.
BeginList ==
  /\ ~client.done
  /\ Begin("list", [i \in DOMAIN table |-> table[i].name])
  /\ LET now == WholeNames(table) IN
       seen' = [seen EXCEPT
         !.fell = IF client.page = 0 THEN {} ELSE @,
         !.rose = IF client.page = 0 THEN {} ELSE @,
         !.always = IF client.page = 0 THEN now ELSE @,
         !.torn = client.page # 0 /\ @,
         !.steady = now]

\* GET of names, in their order; of jobs and scheduled jobs those that are
\* there, in any order. None is a 404.
BeginGet(ns) ==
  /\ kind # "hooks" /\ Len(ns) = 2
  /\ \E todo \in Batches :
       /\ IF kind \in {"jobs", "scheduled"} THEN ToSet(todo) = ToSet(ns) \cap NamesOf(table)
                                           ELSE todo = ns
       /\ Begin("get", todo)
  /\ seen' = [seen EXCEPT !.steady = WholeNames(table) \cap ToSet(ns)]

\* An exception ends the walk: the whole request is an error.
Abort == walk' = Failed

Take(n) ==
  walk' = [walk EXCEPT !.todo = Tail(@), !.out = Append(@, table[At(table, n)])]

Skip == walk' = [walk EXCEPT !.todo = Tail(@)]

Is(n) == IF n \in NamesOf(table) THEN table[At(table, n)].is ELSE "missing"

\* get_model_info loads a model: ModelNotFound without settings; a listing
\* leaves out a type that is not supported.
VisitModel(n) ==
  \/ Is(n) = "whole" /\ Take(n)
  \/ Is(n) = "foreign" /\ walk.on = "list" /\ Skip
  \/ Is(n) = "foreign" /\ walk.on = "get" /\ Abort
  \/ Is(n) \in {"empty", "missing"} /\ Abort

VisitTemplate(n) ==
  \/ Is(n) = "whole" /\ Take(n)
  \/ Is(n) \in {"empty", "missing"} /\ Abort

\* The iterator of g_jobs raises once a job was removed; GET of an id that was
\* removed is a KeyError.
VisitJob(n) ==
  IF IF walk.on = "list" THEN Len(table) = walk.size ELSE Is(n) = "whole"
  THEN Take(n) ELSE Abort

\* get_bucket: BucketNotFound.  Secrets and fields are removed from a copy.
VisitBucket(n) == IF Is(n) = "whole" THEN Take(n) ELSE Abort

\* get_sched_job_desc, of a name that the same thread has just seen. Its
\* deepcopy raises when the timer thread adds a key to the entry meanwhile.
VisitScheduled(n) == Is(n) = "whole" /\ (Take(n) \/ Abort)

\* Mutant: a hook that cannot be loaded ends the loop.
VisitHookLast(n) ==
  IF Is(n) = "whole" THEN Take(n) ELSE walk' = [walk EXCEPT !.todo = <<>>]

\* load_model_hooks goes on without the hooks that it cannot load.
VisitHook(n) == IF Is(n) = "whole" THEN Take(n) ELSE Skip

Visit ==
  /\ Walking /\ walk.todo # <<>>
  /\ LET n == Head(walk.todo) IN
       \/ kind = "models" /\ VisitModel(n)
       \/ kind = "templates" /\ VisitTemplate(n)
       \/ kind = "jobs" /\ VisitJob(n)
       \/ kind = "buckets" /\ VisitBucket(n)
       \/ kind = "scheduled" /\ VisitScheduled(n)
       \/ kind = "hooks" /\ VisitHook(n)
  /\ UNCHANGED <<otherVars, tableVars, stale, http, client, timer, saver, promised,
                 changes>>

\* A page is answered: a client that gets a short one has read them all.
Answer ==
  /\ walk.on = "list" /\ walk.todo = <<>> /\ kind # "hooks"
  /\ kind = "jobs" => Len(table) = walk.size
  /\ ~Fails(walk.out)
  /\ LET page == Page(walk.out, client.page) IN
       /\ seen' = [seen EXCEPT !.once = @ \cup page,
                               !.twice = @ \cup (seen.once \cap page),
                               !.steady = {}]
       /\ client' = IF Cardinality(page) < PerPage
                    THEN [client EXCEPT !.done = TRUE]
                    ELSE [client EXCEPT !.page = @ + 1]
  /\ walk' = Idle
  /\ UNCHANGED <<otherVars, table, stale, http, timer, saver, promised, changes>>

\* The listing cannot be sorted, or the iterator finds its dictionary changed.
AnswerFails ==
  /\ walk.on = "list" /\ walk.todo = <<>> /\ kind # "hooks"
  /\ Fails(walk.out) \/ (kind = "jobs" /\ Len(table) # walk.size)
  /\ Abort
  /\ UNCHANGED <<otherVars, tableVars, stale, http, client, timer, saver, promised,
                 changes>>

\* GET of names and the loading of hooks end without a sort.
AnswerNames ==
  /\ Walking /\ walk.todo = <<>>
  /\ walk.on = "get" \/ kind = "hooks"
  /\ walk' = Idle
  /\ seen' = [seen EXCEPT !.steady = {}]
  /\ UNCHANGED <<otherVars, table, stale, http, client, timer, saver, promised,
                 changes>>

-----------------------------------------------------------------------------
(* The timer thread forgets jobs                                             *)

\* A job has ended, and jobs_max_ttl has passed.
Age(n) ==
  /\ kind = "jobs" /\ Counted
  /\ n \in NamesOf(table) \ stale
  /\ stale' = stale \cup {n}
  /\ UNCHANGED <<otherVars, tableVars, http, walkVars, timer, saver, promised>>

\* daemon_clear_jobs looks through g_jobs, one job after the other.
BeginScan ==
  /\ kind = "jobs" /\ timer = Idle
  /\ timer' = [on |-> "scan", size |-> Len(table)]
  /\ UNCHANGED tableVars

\* Mutant: the exception ends the event.
ScanUncaught ==
  /\ timer.on = "scan"
  /\ \/ Len(table) # timer.size /\ timer' = [on |-> "dead"]
     \/ /\ Len(table) = timer.size
        /\ timer' = [on |-> "forget", expired |-> NamesOf(table) \cap stale]
  /\ UNCHANGED tableVars

\* A job that was registered meanwhile makes the iterator raise; the exception
\* is caught and the next minute tries again.
Scan ==
  /\ timer.on = "scan"
  /\ \/ Len(table) # timer.size /\ timer' = Idle
     \/ /\ Len(table) = timer.size
        /\ timer' = [on |-> "forget", expired |-> NamesOf(table) \cap stale]
  /\ UNCHANGED tableVars

Forget ==
  /\ timer.on = "forget"
  /\ \/ timer.expired = {} /\ timer' = Idle /\ UNCHANGED tableVars
     \/ \E n \in timer.expired :
          /\ Becomes(Without(table, n))
          /\ timer' = [timer EXCEPT !.expired = @ \ {n}]

TimerStep ==
  /\ BeginScan \/ Scan \/ Forget
  /\ UNCHANGED <<otherVars, stale, http, walkVars, saver, promised, changes>>

-----------------------------------------------------------------------------
(* A worker saves a model; crashes                                           *)

Train(n) ==
  /\ kind = "models" /\ saver = Idle /\ Counted
  /\ Is(n) = "whole"
  /\ saver' = [on |-> "dir", name |-> n, value |-> table[At(table, n)].value]
  /\ UNCHANGED <<otherVars, tableVars, stale, http, walkVars, timer, promised>>

\* _write_model makes the directory if it is not there.
SaveDir ==
  /\ saver.on = "dir"
  /\ IF Is(saver.name) # "missing" THEN UNCHANGED tableVars
     ELSE Becomes(Insert(table, [Entry(saver.name, saver.value)
                                   EXCEPT !.is = "empty"]))
  /\ saver' = [saver EXCEPT !.on = "settings"]
  /\ UNCHANGED <<otherVars, stale, http, walkVars, timer, promised, changes>>

\* ... and writes the settings of its beginning, which fails without it, ...
SaveSettings ==
  /\ saver.on = "settings"
  /\ IF Is(saver.name) = "missing"
     THEN saver' = Idle /\ UNCHANGED tableVars
     ELSE /\ saver' = [saver EXCEPT !.on = "checkpoint"]
          /\ Becomes(Put(table, Entry(saver.name, saver.value)))
  /\ UNCHANGED <<otherVars, stale, http, walkVars, timer, promised, changes>>

\* ... and a checkpoint. In a directory whose other files a DELETE has removed,
\* it is in the way of rmdir.
SaveCheckpoint ==
  /\ saver.on = "checkpoint"
  /\ http' = IF http.on = "rmdir" /\ Head(http.names) = saver.name /\ Is(saver.name) = "empty"
             THEN [on |-> "full"] ELSE http
  /\ saver' = Idle
  /\ UNCHANGED <<otherVars, tableVars, stale, walkVars, timer, promised, changes>>

\* A training fails or is canceled, before its end or between two steps of it.
StopTraining ==
  /\ saver # Idle
  /\ saver' = Idle
  /\ UNCHANGED <<otherVars, tableVars, stale, http, walkVars, timer, promised,
                 changes>>

\* The models of a server that has no plug-in for those in `foreign`.
Reread(t, foreign) ==
  [i \in DOMAIN t |->
     IF t[i].is = "empty" THEN t[i]
     ELSE [t[i] EXCEPT !.is = IF t[i].name \in foreign THEN "foreign" ELSE "whole"]]

\* The server is killed and starts again, with other plug-ins and perhaps
\* another configuration: what else was in memory is gone.
Restart(foreign) ==
  /\ Counted
  /\ kind # "models" => foreign = {}
  /\ \E t \in IF kind \in Memory THEN AtStart
              ELSE {IF kind = "models" THEN Reread(table, foreign) ELSE table} :
       Becomes(t)
  /\ http' = Idle /\ walk' = Idle /\ timer' = Idle /\ saver' = Idle
  /\ UNCHANGED <<otherVars, stale, client, promised>>

Next ==
  \/ \E n \in Names, v \in Values :
       \/ CreateDir(n, v) \/ Patch(n, v) \/ RegisterJob(n, v) \/ ChangeJob(n, v)
       \/ PutBucket(n, v) \/ PutScheduled(n, v) \/ SetHook(n, v)
  \/ WriteSettings \/ RemoveFiles \/ RemoveDir \/ RemoveDirFails \/ RemoveEntry
  \/ ClearScheduled
  \/ \E ns \in Batches : Delete(ns) \/ DeleteEntries(ns) \/ BeginGet(ns)
  \/ BeginList \/ Visit \/ Answer \/ AnswerFails \/ AnswerNames
  \/ TimerStep
  \/ \E n \in Names : DeleteHook(n) \/ Age(n) \/ Train(n)
  \/ SaveDir \/ SaveSettings \/ SaveCheckpoint \/ StopTraining
  \/ \E foreign \in SUBSET Names : Restart(foreign)

\* The timer thread goes on; nothing else has to happen.
Spec == Init /\ [][Next]_vars /\ WF_vars(TimerStep)

-----------------------------------------------------------------------------
(* Properties                                                                *)

\* Type invariant: names are unique, and a request has what its steps need.
TypeOK ==
  /\ kind \in Kinds /\ query \in Queries
  /\ table \in Seq([name: Names, value: Values, is: Stored])
  /\ IsInjective([i \in DOMAIN table |-> table[i].name])
  /\ stale \subseteq Names /\ promised \subseteq Names
  /\ http.on \in {"nothing", "create", "delete", "rmdir", "full", "pop"}
  /\ http.on \in {"delete", "rmdir", "pop"} => http.names # <<>>
  /\ http.on = "rmdir" => Head(http.names) \in NamesOf(table)
  /\ walk.on \in {"nothing", "failed", "list", "get"}
  /\ client.page \in Nat /\ changes \in 0..MaxChanges

\* A client that reads page after page misses a resource that was there all the
\* time only if its place fell meanwhile: something before it was removed or
\* moved behind it. It gets a resource twice only if its place rose. (A listing
\* that changes while it is walked through mixes values of two moments and is
\* left out.)
OnlyOvertaken ==
  ~seen.torn =>
    /\ client.done => seen.always \subseteq seen.once \cup seen.fell
    /\ seen.twice \subseteq seen.rose

\* An answer, and the hooks that an evaluation calls, have everything that was
\* there from the beginning to the end, whatever was removed or added meanwhile.
SteadyAnswered ==
  [][Answer \/ AnswerNames => seen.steady \subseteq NamesOf(walk.out)]_vars

\* What a request has created stays complete until a request begins to remove
\* it, whatever trainings save and wherever the server is killed.
PromiseKept ==
  \A n \in promised : n \in NamesOf(table) /\ table[At(table, n)].is # "empty"

\* Every job that has expired is forgotten, though requests break the scan.
ExpiredForgotten == \A n \in Names : n \in stale ~> n \notin NamesOf(table)

(* Statements of the documentation that the code does not keep              *)

\* A listing is the state of one moment: no resource is shown twice that was
\* never overtaken.
ListingOfOneMoment == seen.twice \subseteq seen.rose

\* GET lists the resources of the server: it fails only for a choice of fields
\* or for a field that a resource lacks.
ListingAnswers ==
  [][walk.on = "list" /\ walk' = Failed /\ query.keeps
       => \E i \in DOMAIN table : table[i].value = Absent]_vars
=============================================================================
