---------------------------- MODULE OneBotV11Client ----------------------------
(***************************************************************************)
(* The websocket client for QQ events: connect() and disconnect(), called  *)
(* by the main thread, and the library's thread, which connects,           *)
(* reconnects by itself, and runs the callback for each event.  The        *)
(* library (ixwebsocket) is modelled from how the client uses it.          *)
(*                                                                         *)
(* Nobody calls the functions that send, and nobody registers the          *)
(* client's own callbacks.                                                 *)
(***************************************************************************)
EXTENDS Naturals

VARIABLES
  socket,     \* ws_ holds a WebSocket
  ending,     \* ws_->stop() was called
  lib,        \* the library's thread
  connected,  \* connected_
  event,      \* the call to ChatDatabase that the event in hand leads to
  handed      \* that call has passed its check of ready_

wsVars == <<socket, ending, lib, connected, event, handed>>

Events == {"receive_message", "handle_recall"}

WsTypeOK ==
  /\ socket \in BOOLEAN /\ ending \in BOOLEAN
  /\ lib \in {"off", "trying", "open"}
  /\ connected \in BOOLEAN
  /\ event \in Events \cup {"none"}
  /\ handed \in BOOLEAN

WsInit ==
  /\ socket = FALSE /\ ending = FALSE
  /\ lib = "off" /\ connected = FALSE
  /\ event = "none" /\ handed = FALSE

-----------------------------------------------------------------------------
(* The main thread. *)

(* connect() up to its wait.                                                *)
StartWs ==
  /\ ~connected
  /\ socket' = TRUE /\ ending' = FALSE /\ lib' = "trying"
  /\ UNCHANGED <<connected, event, handed>>

(* Mutant: ws_ is given up before its thread has ended.                      *)
StopWsForgets ==
  /\ ending' = TRUE
  /\ connected' = FALSE /\ socket' = FALSE
  /\ UNCHANGED <<lib, event, handed>>

(* disconnect() up to the join inside ws_->stop().                          *)
StopWs ==
  /\ ending' = TRUE
  /\ connected' = FALSE
  /\ UNCHANGED <<socket, lib, event, handed>>

WsEnded == lib = "off"

(* ws_->close() and ws_.reset().                                            *)
ResetWs ==
  /\ socket' = FALSE
  /\ UNCHANGED <<ending, lib, connected, event, handed>>

-----------------------------------------------------------------------------
(* The library's thread and the message callback. *)

Idle == event = "none"

(* A connection in progress may still succeed after disconnect() has        *)
(* cleared connected_, and set it again.                                    *)
Open ==
  /\ lib = "trying"
  /\ lib' = "open" /\ connected' = TRUE
  /\ UNCHANGED <<socket, ending, event, handed>>

(* Close, or Error: the library tries again.                                *)
Closed ==
  /\ lib \in {"trying", "open"} /\ Idle
  /\ lib' = "trying" /\ connected' = FALSE
  /\ UNCHANGED <<socket, ending, event, handed>>

(* handle_payload: answers to calls (echo), invalid JSON, binary messages,  *)
(* requests and meta events lead to no call.                                *)
Payload(e) ==
  /\ lib = "open" /\ Idle
  /\ event' = e
  /\ UNCHANGED <<socket, ending, lib, connected, handed>>

Hand(open) ==
  /\ ~Idle /\ ~handed
  /\ event' = IF open THEN event ELSE "none"
  /\ handed' = open
  /\ UNCHANGED <<socket, ending, lib, connected>>

Handled ==
  /\ handed
  /\ event' = "none" /\ handed' = FALSE
  /\ UNCHANGED <<socket, ending, lib, connected>>

LibraryEnds ==
  /\ ending /\ lib # "off" /\ Idle
  /\ lib' = "off"
  /\ UNCHANGED <<socket, ending, connected, event, handed>>
=============================================================================
