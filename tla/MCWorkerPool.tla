------------------------------ MODULE MCWorkerPool ------------------------------
(* Instances of WorkerPool for TLC: the pools of MessageProcessor and       *)
(* OllamaClient with two threads, MemorySummarizer's one worker, and the    *)
(* one storage thread with its timeout and batch threshold.                 *)
EXTENDS WorkerPool

CONSTANTS t1, t2

Pool(threads, timed, notifyAt, takeUpTo, pushUpTo) ==
  [threads |-> threads, timed |-> timed, notifyAt |-> notifyAt,
   takeUpTo |-> takeUpTo, pushUpTo |-> pushUpTo]

Both      == {t1, t2}
Processor == Pool(Both, FALSE, 1, 1, 2)
Embedder  == Pool(Both, FALSE, 1, 1, 1)
Summaries == Pool({t1}, FALSE, 1, 1, 1)
Storage   == Pool({t1}, TRUE, 2, 2, 3)

AllPools  == {Processor, Embedder, Summaries, Storage}
=============================================================================
