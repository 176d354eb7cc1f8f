--------------------------- MODULE MCGapFillStores ---------------------------
(* The stores of gap-fill research for TLC: what was fetched, digested and found.   *)
(* None reads or writes a variable of another, so each is checked with the others   *)
(* at rest: the states of the three add up, and none of their steps is left out.    *)
EXTENDS ArtifactCache, DigestMemo, FindingsBank, TLC

VARIABLE moving    \* the store that is in use

StoresInit == Init /\ MemoInit /\ BankInit /\ moving \in {"artifacts", "digests", "findings"}

ArtifactsAlone == moving = "artifacts" /\ UNCHANGED <<memoVars, bankVars, moving>>
MemoAlone == moving = "digests" /\ UNCHANGED <<vars, bankVars, moving>>
BankAlone == moving = "findings" /\ UNCHANGED <<vars, memoVars, moving>>

\* Next, MemoNext and BankNext, disjunct by disjunct, so that TLC counts each on its own.
ArtifactsNext ==
    \/ \E u, w \in Urls : ArtifactsAlone /\ Put(u, w)
    \/ \E u \in Urls : ArtifactsAlone /\ Lookup(u)
    \/ ArtifactsAlone /\ Clear
    \/ \E r \in Readers :
          \/ \E u \in Urls : ArtifactsAlone /\ StartPresenting(r, u)
          \/ ArtifactsAlone /\ Rejected(r)
          \/ ArtifactsAlone /\ Presented(r)
          \/ ArtifactsAlone /\ Abandoned(r)

DigestsNext ==
    \/ \E c \in Callers :
          \/ MemoAlone /\ CacheHit(c)
          \/ MemoAlone /\ JoinRegistered(c)
          \/ MemoAlone /\ StartDigest(c)
          \/ MemoAlone /\ Wake(c)
          \/ MemoAlone /\ GiveUp(c)
    \/ \E t \in Tasks :
          \/ MemoAlone /\ DigestEnds(t)
          \/ MemoAlone /\ DoneCallback(t)
    \/ MemoAlone /\ Evict
    \/ MemoAlone /\ ClearMemo

FindingsNext ==
    \/ BankAlone /\ BeginCall
    \/ BankAlone /\ \E c \in Contents, r \in Named : Accept(c, r)
    \/ BankAlone /\ EndValidation
    \/ BankAlone /\ BankReplacement
    \/ BankAlone /\ SkipDuplicate
    \/ BankAlone /\ BankNew
    \/ BankAlone /\ Answer
    \/ BankAlone /\ EndCall

StoresNext == ArtifactsNext \/ DigestsNext \/ FindingsNext

StoresSpec == StoresInit /\ [][StoresNext]_<<vars, memoVars, bankVars, moving>>

\* URLs and contents are told apart only by which of them are the same.
Symmetry == Permutations(Urls) \cup Permutations(Contents)
=============================================================================
