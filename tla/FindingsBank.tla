---------------------------- MODULE FindingsBank ----------------------------
(***************************************************************************)
(* The findings bank of the agentic gap-fill loop: what record_findings    *)
(* and conclude do with the findings the driver proposes.  The bank holds  *)
(* a list of findings and, beside it, an index from what a finding says to *)
(* where it stands.  A call first validates all its proposals, on a        *)
(* projection of who will own which content once the earlier ones are      *)
(* banked, and then banks the accepted ones in order without looking at    *)
(* the projection again.  A proposal is new, or replaces a banked finding  *)
(* by identity; the driver may send any number of either in one call.      *)
(***************************************************************************)
EXTENDS Integers, Sequences

CONSTANTS
    Contents,       \* what findings may say: values of _finding_content_key
    MaxCalls,       \* bound: calls of record_findings and conclude
    MaxProposals    \* bound: proposals of a call that are not malformed

ASSUME BankAssumption == MaxCalls \in Nat /\ MaxProposals \in Nat

Nobody == 0         \* no owner, no place in the list, no finding replaced
PendingOwner == -1       \* owner: a new finding of this very call

VARIABLES
    findings,   \* state.findings: [id, content]
    seen,       \* state.seen_finding_keys: content -> where in findings, or Nobody
    next,       \* state.next_finding_number
    phase,      \* "idle", "validating", "banking", "answer", "stopped"
    concluding, \* whether the call is conclude
    owners,     \* projected_key_owners: content -> a finding's id, Pending or Nobody
    accepted,   \* the proposals accepted: [content, replaces], and owned, the history of owners
    done,       \* how many of them are banked
    banked, duplicates, \* what the answer reports
    held,       \* history: the id that held each of them when it was banked
    before,     \* history: findings when the call began
    callsMade       \* calls so far

bank == <<findings, seen, next>>
bankVars == <<findings, seen, next, phase, concluding, owners, accepted, done, banked, duplicates,
          held, before, callsMade>>

FindingIds == {findings[i].id : i \in DOMAIN findings}

BankInit ==
    /\ findings = <<>>
    /\ seen = [c \in Contents |-> Nobody]
    /\ next = 1
    /\ phase = "idle"
    /\ concluding = FALSE
    /\ owners = [c \in Contents |-> Nobody]
    /\ accepted = <<>>
    /\ done = 0
    /\ banked = 0 /\ duplicates = 0
    /\ held = <<>>
    /\ before = <<>>
    /\ callsMade = 0

-----------------------------------------------------------------------------
(* Validation. *)

\* Who holds what, of two that hold the same the later.
CurrentOwners ==
    [c \in Contents |->
        LET holders == {i \in DOMAIN findings : findings[i].content = c}
        IN IF holders = {} THEN Nobody
           ELSE findings[CHOOSE i \in holders : \A j \in holders : j <= i].id]

\* A conclude has passed its gate by now; the gate is AgenticLoop's.
BeginCall ==
    /\ phase = "idle"
    /\ callsMade < MaxCalls
    /\ callsMade' = callsMade + 1
    /\ concluding' \in BOOLEAN
    /\ phase' = "validating"
    /\ owners' = CurrentOwners
    /\ accepted' = <<>>
    /\ before' = findings
    /\ UNCHANGED <<findings, seen, next, done, banked, duplicates, held>>

\* A broken check looks at the bank and not at the proposals before this one.
GroundedInBank(c, r) ==
    r # Nobody =>
        /\ r \in FindingIds
        /\ seen[c] # Nobody => findings[seen[c]].id = r

\* _finding_provenance_reason and _project_finding_identity find nothing against it.
Grounded(c, r) ==
    r # Nobody =>
        /\ r \in FindingIds
        /\ seen[c] # Nobody => findings[seen[c]].id = r
        /\ owners[c] \in {Nobody, r}

\* Who owns what once the proposal is banked.
Projected(c, r) ==
    IF r = Nobody THEN [owners EXCEPT ![c] = IF @ = Nobody THEN PendingOwner ELSE @]
    ELSE [d \in Contents |-> IF d = c THEN r ELSE IF owners[d] = r THEN Nobody ELSE owners[d]]

\* A rejected proposal, for one of these reasons or another, leaves no trace but a line.
Accept(c, r) ==
    /\ phase = "validating"
    /\ Len(accepted) < MaxProposals
    /\ Grounded(c, r)
    /\ accepted' = Append(accepted, [content |-> c, replaces |-> r, owned |-> owners])
    /\ owners' = Projected(c, r)
    /\ UNCHANGED <<findings, seen, next, phase, concluding, done, banked, duplicates, held, before, callsMade>>

EndValidation ==
    /\ phase = "validating"
    /\ phase' = "banking"
    /\ done' = 0 /\ banked' = 0 /\ duplicates' = 0 /\ held' = <<>>
    /\ UNCHANGED <<findings, seen, next, concluding, owners, accepted, before, callsMade>>

-----------------------------------------------------------------------------
(* Banking. *)

Current == accepted[done + 1]

\* A broken replacement keeps the key of what it replaces.
OldKeyKept(i, c) == [seen EXCEPT ![c] = i]

\* The index without the keys of place i, which now holds c.
Reindexed(i, c) == [d \in Contents |-> IF d = c THEN i ELSE IF seen[d] = i THEN Nobody ELSE seen[d]]

NewPlace == Len(findings) + 1

PlaceOf(id) == CHOOSE i \in DOMAIN findings : findings[i].id = id

\* A replacement keeps the identity.  Of an identity that is not banked nothing is kept.
BankReplacement ==
    /\ phase = "banking" /\ done < Len(accepted)
    /\ Current.replaces # Nobody
    /\ IF Current.replaces \in FindingIds
       THEN LET i == PlaceOf(Current.replaces) IN
            /\ findings' = [findings EXCEPT ![i] = [id |-> Current.replaces, content |-> Current.content]]
            /\ seen' = Reindexed(i, Current.content)
            /\ banked' = banked + 1
       ELSE UNCHANGED <<findings, seen, banked>>
    /\ held' = Append(held, Current.replaces)
    /\ done' = done + 1
    /\ UNCHANGED <<next, phase, concluding, owners, accepted, duplicates, before, callsMade>>

SkipDuplicate ==
    /\ phase = "banking" /\ done < Len(accepted)
    /\ Current.replaces = Nobody
    /\ seen[Current.content] # Nobody
    /\ duplicates' = duplicates + 1
    /\ held' = Append(held, findings[seen[Current.content]].id)
    /\ done' = done + 1
    /\ UNCHANGED <<findings, seen, next, phase, concluding, owners, accepted, banked, before, callsMade>>

BankNew ==
    /\ phase = "banking" /\ done < Len(accepted)
    /\ Current.replaces = Nobody
    /\ seen[Current.content] = Nobody
    /\ findings' = Append(findings, [id |-> next, content |-> Current.content])
    /\ seen' = [seen EXCEPT ![Current.content] = NewPlace]
    /\ next' = next + 1
    /\ banked' = banked + 1
    /\ held' = Append(held, next)
    /\ done' = done + 1
    /\ UNCHANGED <<phase, concluding, owners, accepted, duplicates, before, callsMade>>

Answer ==
    /\ phase = "banking" /\ done = Len(accepted)
    /\ phase' = "answer"
    /\ UNCHANGED <<findings, seen, next, concluding, owners, accepted, done, banked, duplicates,
                   held, before, callsMade>>

\* A conclude stops the loop.
EndCall ==
    /\ phase = "answer"
    /\ phase' = IF concluding THEN "stopped" ELSE "idle"
    /\ UNCHANGED <<findings, seen, next, concluding, owners, accepted, done, banked, duplicates,
                   held, before, callsMade>>

\* The identities a driver may name: banked ones, and one that is not.
Named == FindingIds \cup {Nobody, next}

BankNext ==
    \/ BeginCall \/ (\E c \in Contents, r \in Named : Accept(c, r)) \/ EndValidation
    \/ BankReplacement \/ SkipDuplicate \/ BankNew \/ Answer \/ EndCall

BankSpec == BankInit /\ [][BankNext]_bankVars

-----------------------------------------------------------------------------
Places == 0..Len(findings)
Owners == Int
OwnerMap == [Contents -> Owners]

BankTypeOK ==
    /\ findings \in Seq([id : Nat, content : Contents])
    /\ seen \in [Contents -> Places]
    /\ next \in Nat
    /\ phase \in {"idle", "validating", "banking", "answer", "stopped"}
    /\ concluding \in BOOLEAN
    /\ owners \in OwnerMap
    /\ accepted \in Seq([content : Contents, replaces : Nat, owned : OwnerMap])
    /\ done \in Nat
    /\ banked \in Nat /\ duplicates \in Nat
    /\ held \in Seq(Nat)
    /\ before \in Seq([id : Nat, content : Contents])
    /\ callsMade \in Nat

\* The bank says a thing once, and its index is exact, between any two proposals of a call
\* and whatever the call replaces: a content has a place in the index if and only if the
\* finding at that place says it, and a finding's identity is the one it was given.
BankIsExact ==
    /\ \A i \in DOMAIN findings : findings[i].id = i
    /\ \A i \in DOMAIN findings : seen[findings[i].content] = i
    /\ \A c \in Contents : seen[c] # Nobody => findings[seen[c]].content = c

\* The answer a call gives is true of the bank.  Every proposal it accepted is counted, as
\* banked or as already recorded, and the finding that held it then says it still, unless
\* a later proposal of the call replaced that one; a finding that the call replaced nowhere
\* says what it said before, under the identity it had.
AnswerIsTrue ==
    phase = "answer" =>
        /\ banked + duplicates = Len(accepted)
        /\ \A k \in DOMAIN accepted :
            \/ \E i \in DOMAIN findings : findings[i].id = held[k] /\ findings[i].content = accepted[k].content
            \/ \E j \in DOMAIN accepted : j > k /\ accepted[j].replaces = held[k]
        /\ \A i \in DOMAIN before :
            \/ findings[i] = before[i]
            \/ findings[i].id = before[i].id /\ \E k \in DOMAIN accepted : accepted[k].replaces = before[i].id
=============================================================================
