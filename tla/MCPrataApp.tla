----------------------------- MODULE MCPrataApp -----------------------------
(* PrataApp with two endpoints. *)
EXTENDS PrataApp, TLC

CONSTANTS e1, e2

MCEndpoint == {e1, e2}

(* A text without header lines, one that quotes the first message of a room, and one that
   has a number the room comes to later. *)
MCQuotes == {<<>>, 1 :> "theirs", 2 :> "theirs"}

(* Two restarts and a failure are tried with one message that has no header lines in its text; the
   others with one restart, which may overtake an answer, and in the room followed at first.  A
   second message comes where the endpoint stays. *)
Plain ==
    /\ posts <= 1 /\ (restarts = 2 => ~isVisible)
    /\ \A e \in MCEndpoint : \A n \in DOMAIN room[e] : DOMAIN room[e][n] = {n}
Quoting ==
    /\ restarts <= 1 /\ fails = 0 /\ ~isVisible
    /\ \A e \in MCEndpoint, n \in 1..MaxPost : n \in DOMAIN room[e] =>
         CASE e = FirstEndpoint /\ n = 1 -> DOMAIN room[e][n] \in {{}, {1}, {1, 2}}
           [] e = FirstEndpoint /\ n = 2 -> room[e][n] \in {2 :> "theirs", 1 :> "theirs" @@ 2 :> "theirs"}
           [] OTHER                      -> FALSE
    /\ posts = 2 => endpoint = FirstEndpoint

(* The session and the queue share no variable: each is explored while the other has
   done nothing, but for a relaunch, after which no reply runs on; and no request fails once a
   second restart came. *)
Apart ==
    \/ typed = 0 /\ replies = <<>> /\ (restarts <= 1 \/ fails = 0) /\ (Plain \/ Quoting)
    \/ /\ posts = 0 /\ fails = 0 /\ restarts <= 1 /\ (restarts = 0 \/ running = {})
       /\ endpoint = FirstEndpoint /\ ~isVisible
       /\ \A i \in Task : task[i] = IF i = loop THEN Ready ELSE Gone

StaysApart == Apart'
=============================================================================
