--------------------------- MODULE PublishPromise ---------------------------
(***************************************************************************)
(* What the publish path promises of each question's two POSTs, with the   *)
(* pool, the timeouts and the retries left out: at-least-once delivery.    *)
(* The forecast comes first and the comment only once the forecast is      *)
(* known to have landed; a POST reported as landed was processed by the    *)
(* platform; none is processed more often than it may be attempted.  The   *)
(* promise is no stronger: a POST reported as failed may still be          *)
(* processed, and either may be processed twice.                           *)
(***************************************************************************)
EXTENDS Naturals

CONSTANTS Publishers, Attempts

VARIABLES
    verdict,     \* publisher -> kind -> what the path has reported
    delivered    \* publisher -> kind -> how often the platform processed the POST

pvars == <<verdict, delivered>>

Kinds == {"forecasts", "comments"}
Verdicts == {"none", "pending", "landed", "gave_up"}

PromiseInit ==
    /\ verdict = [q \in Publishers |-> [k \in Kinds |-> "none"]]
    /\ delivered = [q \in Publishers |-> [k \in Kinds |-> 0]]

Start(q) ==
    /\ verdict[q]["forecasts"] = "none"
    /\ verdict' = [verdict EXCEPT ![q]["forecasts"] = "pending"]
    /\ UNCHANGED delivered

Deliver(q, k) ==
    /\ verdict[q][k] # "none"
    /\ delivered[q][k] < Attempts
    /\ delivered' = [delivered EXCEPT ![q][k] = @ + 1]
    /\ UNCHANGED verdict

ForecastLands(q) ==
    /\ verdict[q]["forecasts"] = "pending"
    /\ delivered[q]["forecasts"] > 0
    /\ verdict' = [verdict EXCEPT ![q] = [forecasts |-> "landed", comments |-> "pending"]]
    /\ UNCHANGED delivered

CommentLands(q) ==
    /\ verdict[q]["comments"] = "pending"
    /\ delivered[q]["comments"] > 0
    /\ verdict' = [verdict EXCEPT ![q]["comments"] = "landed"]
    /\ UNCHANGED delivered

GiveUp(q, k) ==
    /\ verdict[q][k] = "pending"
    /\ verdict' = [verdict EXCEPT ![q][k] = "gave_up"]
    /\ UNCHANGED delivered

PromiseNext ==
    \E q \in Publishers :
        \/ Start(q) \/ ForecastLands(q) \/ CommentLands(q)
        \/ \E k \in Kinds : Deliver(q, k) \/ GiveUp(q, k)

PromiseSpec == PromiseInit /\ [][PromiseNext]_pvars
=============================================================================
