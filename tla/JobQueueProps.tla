---------------------------- MODULE JobQueueProps ----------------------------
(***************************************************************************)
(* What the deferred path promises.                                        *)
(***************************************************************************)
EXTENDS JobQueue

TypeOK ==
  /\ api \in [Job -> {"new", "pushed", "202", "503"}]
  /\ queue \in Seq(Job)
  /\ at \in [Worker -> Places]
  /\ cur \in [Worker -> Job \cup {None}]
  /\ term \subseteq Worker
  /\ applied \subseteq Job /\ runs \subseteq Job
  /\ seen \in Nat /\ upsets \in 0..MaxUpsets
  /\ pushed \in [Job -> Nat] /\ settled \in [Job -> Nat]
  /\ taken \in Seq(Job)

InQueue(j) == Cardinality({i \in DOMAIN queue : queue[i] = j})
InHand(j)  == Cardinality({w \in Worker : cur[w] = j})

\* Every copy of a job that was put on the list is in the list, with exactly
\* one worker, or has left the system: no copy is processed twice and none
\* disappears unaccounted, whatever pods come and go.  A worker has a job
\* exactly while it works on one.
JobsConserved ==
  /\ \A j \in Job : pushed[j] = InQueue(j) + InHand(j) + settled[j]
  /\ \A w \in Worker : cur[w] # None <=> at[w] \in Busy

\* A worker told to stop issues no further read of the queue (drain: "so a
\* SIGTERM arriving while blocked is not swallowed by the next iteration").
StopsReading ==
  [][\A w \in Worker : w \in term /\ at[w] # "pop" => at'[w] # "pop"]_vars

\* The Redis list, pushed at its head and popped at its tail, is a FIFO queue
\* ("Paired with a tail pop, that makes the list FIFO").
FifoSpec == INSTANCE Fifo WITH Item <- Job, pending <- Reverse(queue), taken <- taken
ImplementsFifo == FifoSpec!Spec

\* Every job on the list is eventually taken by a worker: from zero replicas
\* too, and however few jobs wait.
EveryJobIsTaken ==
  \A j \in Job : (\E i \in DOMAIN queue : queue[i] = j) ~> (\A i \in DOMAIN queue : queue[i] # j)

\* Once requests cease the tenant's last worker goes, and none comes back
\* (scale to zero, claim C1).
ScalesToZero == <>[](\A w \in Worker : at[w] = "off")

-----------------------------------------------------------------------------
\* redis.yaml: "/reindex returns 202, which is a promise": an accepted job that
\* is neither on the list nor with a worker has rebuilt the graph.
PromiseKept ==
  \A j \in Job : api[j] = "202" /\ InQueue(j) = 0 /\ InHand(j) = 0 => j \in applied
=============================================================================
