------------------------------- MODULE HttpServer -------------------------------
(***************************************************************************)
(* HttpServer between start() and stop(): the thread that listens, and a   *)
(* request as the calls its handler makes to ChatDatabase, one after the   *)
(* other.  Requests share nothing but what those calls touch, so one at a  *)
(* time stands for all: a request may meet every step of the others'       *)
(* threads.  The event streams are the subject of ProviderEvents.          *)
(***************************************************************************)
EXTENDS Sequences

CONSTANT Requests  \* the handlers that clients call

VARIABLES
  http,       \* server_thread_
  calls,      \* the calls the request under way has still to make
  inside      \* the first of them has passed its check of ready_

httpVars == <<http, calls, inside>>

(* The calls of the handlers that touch a part of ChatDatabase.  A body     *)
(* that is not JSON, parameters that are no numbers, and a missing key end  *)
(* a handler before its first call.  A batch of messages goes to            *)
(* receive_messages, which ChatDatabase declares and does not define.       *)
MessageHandlers ==
  [post_messages |-> <<"receive_message", "count_messages">>,
   post_recall   |-> <<"handle_recall">>]

SearchHandlers ==
  [get_search  |-> <<"search">>,
   get_recent  |-> <<"get_recent">>,
   get_context |-> <<"get_context">>]

MemoryHandlers ==
  [get_memories    |-> <<"get_memories">>,
   post_summarize  |-> <<"summarize_now">>,
   post_importance |-> <<"mark_importance">>,
   post_merge      |-> <<"merge_memories">>,
   delete_memory   |-> <<"delete_memory">>]

ProviderHandlers ==
  [get_providers |-> <<"list_providers">>,
   post_switch   |-> <<"switch_provider">>,
   get_status    |-> <<"current", "list_providers">>]

SystemHandlers ==
  [get_stats    |-> <<"get_stats">>,
   post_backup  |-> <<"backup_index">>,
   post_vacuum  |-> <<"vacuum">>,
   post_cleanup |-> <<"cleanup_old_data">>]

Handler ==
  [h \in UNION {DOMAIN MessageHandlers, DOMAIN SearchHandlers, DOMAIN MemoryHandlers,
                DOMAIN ProviderHandlers, DOMAIN SystemHandlers} |->
     CASE h \in DOMAIN MessageHandlers  -> MessageHandlers[h]
       [] h \in DOMAIN SearchHandlers   -> SearchHandlers[h]
       [] h \in DOMAIN MemoryHandlers   -> MemoryHandlers[h]
       [] h \in DOMAIN ProviderHandlers -> ProviderHandlers[h]
       [] h \in DOMAIN SystemHandlers   -> SystemHandlers[h]]

Calls == UNION {{Handler[h][i] : i \in DOMAIN Handler[h]} : h \in DOMAIN Handler}

ASSUME HttpAssumption == Requests \subseteq DOMAIN Handler

HttpTypeOK ==
  /\ http \in {"none", "starting", "listening", "failed", "closing", "ended"}
  /\ calls \in Seq(Calls)
  /\ inside \in BOOLEAN /\ (inside => calls # <<>>)

HttpInit == http = "none" /\ calls = <<>> /\ inside = FALSE

-----------------------------------------------------------------------------
(* start(): the thread is created; it binds the port, or fails to.          *)
StartHttp ==
  /\ http = "none"
  /\ http' = "starting"
  /\ UNCHANGED <<calls, inside>>

Bind ==
  /\ http = "starting"
  /\ http' \in {"listening", "failed"}
  /\ UNCHANGED <<calls, inside>>

(* server_->stop(), which does nothing unless the server listens.           *)
StopListening ==
  /\ http' = IF http = "listening" THEN "closing" ELSE http
  /\ UNCHANGED <<calls, inside>>

(* listen() returns when the last handler has.                              *)
ListenReturns ==
  /\ http = "closing" /\ calls = <<>>
  /\ http' = "ended"
  /\ UNCHANGED <<calls, inside>>

(* server_thread_ can be joined, or there is none.                          *)
HttpEnded == http \in {"none", "failed", "ended"}

-----------------------------------------------------------------------------
(* setup_routes, and a handler as far as its calls go.                      *)

Accept(h) ==
  /\ http = "listening" /\ calls = <<>>
  /\ calls' = Handler[h]
  /\ UNCHANGED <<http, inside>>

(* The check of ready_, or what stands in its place, of the next call.      *)
Enter(open) ==
  /\ calls # <<>> /\ ~inside
  /\ calls' = IF open THEN calls ELSE Tail(calls)
  /\ inside' = open
  /\ UNCHANGED http

(* Mutant: the next call is taken for one that has passed its check.         *)
ReturnStaysInside ==
  /\ inside
  /\ calls' = Tail(calls) /\ inside' = TRUE
  /\ UNCHANGED http

Return ==
  /\ inside
  /\ calls' = Tail(calls) /\ inside' = FALSE
  /\ UNCHANGED http
=============================================================================
