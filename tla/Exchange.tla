------------------------------ MODULE Exchange ------------------------------
(***************************************************************************)
(* The Unix-socket connection on which ngx_http_waffynx_module asks the    *)
(* sidecar about one request.  It is the only state the two processes      *)
(* share: NginxModule and Sidecar both extend this module, and DataPlane   *)
(* joins them.  One connection is opened per request and never reused.     *)
(***************************************************************************)
CONSTANTS Requests   \* client requests that reach the ACCESS phase

VARIABLES
    conn,      \* conn[r]: nginx's end of the connection opened for r
    accepted,  \* requests whose connection the sidecar has accepted
    reply,     \* reply[r]: what recv() finds on the connection
    listening  \* the sidecar's socket exists and accepts connections

exchangeVars == <<conn, accepted, reply, listening>>

(* "open": connected; "flowing": as much as the sidecar reads is through,  *)
(* but not all of a big message; "sent": everything is sent and the write  *)
(* side shut down; "closed": nginx closed it after that; "aborted": nginx  *)
(* closed it with the message incomplete.                                  *)
ConnStates == {"none", "open", "flowing", "sent", "closed", "aborted"}

(* The connections nginx still waits on.                                   *)
Waiting(r) == conn[r] \in {"open", "flowing", "sent"}

(* "eof": the peer went away; "allow" is status 204, "deny" any other one. *)
Replies == {"none", "allow", "deny", "eof"}

ExchangeTypeOK ==
    /\ conn \in [Requests -> ConnStates]
    /\ accepted \in SUBSET Requests
    /\ reply \in [Requests -> Replies]
    /\ listening \in BOOLEAN

(* nginx is started after the sidecar (engine_unix.go Start).              *)
ExchangeInit ==
    /\ conn = [r \in Requests |-> "none"]
    /\ accepted = {}
    /\ reply = [r \in Requests |-> "none"]
    /\ listening = TRUE
=============================================================================
