----------------------------- MODULE CodexReview -----------------------------
(***************************************************************************)
(* Requests for a Codex review of a pull request (http.rs, queue.rs).  A   *)
(* request posts a comment on GitHub, is registered in SQLite and watched  *)
(* by a task that polls for the review, posts the comment again when a     *)
(* retry is due, and queues a message when the review has landed.  Every   *)
(* GitHub call is an await, so creators, watchers, cancels and the pull    *)
(* request itself move in between.  One pull request is modelled.          *)
(***************************************************************************)
EXTENDS Integers, FiniteSetsExt, SequencesExt

CONSTANTS
  Owners,          \* sessions that ask for reviews
  MaxHeads,        \* bound: heads of the pull request
  MaxRequests,     \* bound: registrations
  MaxPosts,        \* bound: comments posted
  MaxReviews,      \* bound: reviews Codex submits
  ReviewFaults,    \* bound: GitHub calls that fail
  ReviewCrashes    \* bound: server crashes

ASSUME ReviewAssumption ==
  {MaxHeads, MaxRequests, MaxPosts, MaxReviews, ReviewFaults, ReviewCrashes} \subseteq Nat /\ MaxHeads # 0

VARIABLES
  github,    \* the head of the pull request, the comments and the reviews, in time
  registry,  \* codex_review_request_registrations
  creator,   \* the create handler of each session
  creating,  \* codex_review_creation_locks: is a request being created?
  watcher,   \* the watcher of each registration
  landed,    \* message_queue: the registrations a message was queued for
  reviewFaults, reviewCrashes

reviewVars == <<github, registry, creator, creating, watcher, landed, reviewFaults, reviewCrashes>>

NoCreator == [pc |-> "none", head |-> 0, posted |-> 0]
NoWatcher == [pc |-> "none", since |-> 0, posted |-> 0]
NewWatcher == [NoWatcher EXCEPT !.pc = "read"]

Active == {i \in DOMAIN registry : registry[i].state = "active"}
GitHubFails == reviewFaults < ReviewFaults /\ reviewFaults' = reviewFaults + 1

\* The bound on comments, counting those about to be posted
MayPost ==
  github.asked + Cardinality({o \in Owners : creator[o].pc \in {"head", "post"}})
    + Cardinality({i \in DOMAIN watcher : watcher[i].pc = "post"}) < MaxPosts

\* spawn_codex_review_request_watcher: unless one is registered
Watched(i) == IF watcher[i].pc \in {"none", "failed"} THEN [watcher EXCEPT ![i] = NewWatcher] ELSE watcher

-----------------------------------------------------------------------------
(* GitHub *)

Push ==
  /\ github.head < MaxHeads
  /\ github' = [github EXCEPT !.head = @ + 1]
  /\ UNCHANGED <<registry, creator, creating, watcher, landed, reviewFaults, reviewCrashes>>

\* Codex reviews the head of the pull request when it was asked to
CodexReviews ==
  /\ github.asked > Cardinality(github.reviews) /\ Cardinality(github.reviews) < MaxReviews
  /\ github' = [github EXCEPT !.now = @ + 1,
                  !.reviews = @ \union {[head |-> github.head, at |-> github.now + 1]}]
  /\ UNCHANGED <<registry, creator, creating, watcher, landed, reviewFaults, reviewCrashes>>

\* post_pr_review_comment_with_gh: the stamp is taken when the call returns
Posted == [github EXCEPT !.now = @ + 1, !.asked = @ + 1]

-----------------------------------------------------------------------------
(* Asking for a review *)

\* create_codex_review_request refuses while another creation is under way
ReviewBegin(o) ==
  /\ creator[o].pc = "none" /\ ~creating /\ Len(registry) < MaxRequests /\ MayPost
  /\ creating' = TRUE
  /\ creator' = [creator EXCEPT ![o].pc = "head"]
  /\ UNCHANGED <<github, registry, watcher, landed, reviewFaults, reviewCrashes>>

\* Has another session an active request?
OwnedByOther(o) == \E i \in Active : registry[i].owner # o

\* The head is read and the active requests are looked at: a request of another session is
\* a conflict, one for this head is returned and watched again
CreateCheck(o) ==
  /\ creator[o].pc = "head"
  /\ LET same == {i \in Active : registry[i].head = github.head} IN
       IF OwnedByOther(o) \/ same # {}
         THEN /\ creator' = [creator EXCEPT ![o] = NoCreator] /\ creating' = FALSE
              /\ watcher' = IF OwnedByOther(o) THEN watcher ELSE Watched(Min(same))
         ELSE /\ creator' = [creator EXCEPT ![o] = [pc |-> "post", head |-> github.head, posted |-> 0]]
              /\ UNCHANGED <<creating, watcher>>
  /\ UNCHANGED <<github, registry, landed, reviewFaults, reviewCrashes>>

CreatePost(o) ==
  /\ creator[o].pc = "post"
  /\ \/ /\ github' = Posted
        /\ creator' = [creator EXCEPT ![o].pc = "register", ![o].posted = Posted.now]
        /\ UNCHANGED <<creating, reviewFaults>>
     \/ /\ GitHubFails
        /\ creator' = [creator EXCEPT ![o] = NoCreator] /\ creating' = FALSE
        /\ UNCHANGED github
  /\ UNCHANGED <<registry, watcher, landed, reviewCrashes>>

\* The requests of the session for earlier heads are superseded
Supersede(o) ==
  [i \in DOMAIN registry |->
     IF i \in Active /\ registry[i].owner = o THEN [registry[i] EXCEPT !.state = "superseded"]
     ELSE registry[i]]

\* create_codex_review_request_conn, in one transaction, checks again and registers
CreateRegister(o) ==
  /\ creator[o].pc = "register"
  /\ LET same == {i \in Active : registry[i].head = creator[o].head}
         id == Len(registry) + 1
     IN CASE OwnedByOther(o) -> UNCHANGED <<registry, watcher>>
          [] ~OwnedByOther(o) /\ same # {} -> watcher' = Watched(Min(same)) /\ UNCHANGED registry
          [] OTHER ->
               /\ registry' = Append(Supersede(o),
                    [owner |-> o, head |-> creator[o].head, since |-> creator[o].posted,
                     state |-> "active"])
               /\ watcher' = [watcher EXCEPT ![id] = NewWatcher]
  /\ creator' = [creator EXCEPT ![o] = NoCreator] /\ creating' = FALSE
  /\ UNCHANGED <<github, landed, reviewFaults, reviewCrashes>>

\* cancel_codex_review_request_in_path
CancelReview(i) ==
  /\ i \in Active
  /\ registry' = [registry EXCEPT ![i].state = "cancelled"]
  /\ UNCHANGED <<github, creator, creating, watcher, landed, reviewFaults, reviewCrashes>>

-----------------------------------------------------------------------------
(* run_codex_review_request_watcher *)

\* After a poll interval the registration is read again; the watcher of one that is no
\* longer active ends
WatchRead(i) ==
  /\ watcher[i].pc = "read"
  /\ watcher' = [watcher EXCEPT ![i] =
       IF i \in Active THEN [pc |-> "find", since |-> registry[i].since, posted |-> 0] ELSE NoWatcher]
  /\ UNCHANGED <<github, registry, creator, creating, landed, reviewFaults, reviewCrashes>>

\* find_fresh_codex_review_or_comment_with_gh: newer than the request, and of its head
Fresh(i) == {r \in github.reviews : r.at > watcher[i].since /\ r.head = registry[i].head}

\* Mutant: a failed poll ends the watcher
AfterPollError(i) == NoWatcher

\* A failed poll is recorded, and the watcher goes on
PollError(i) == [watcher[i] EXCEPT !.pc = "read"]

\* complete_codex_review_request_and_enqueue_in_path: the request is completed and its
\* message queued in one transaction, if it is still active
Complete(i) ==
  IF i \in Active
    THEN registry' = [registry EXCEPT ![i].state = "completed"] /\ landed' = landed \union {i}
    ELSE UNCHANGED <<registry, landed>>

\* The review has landed, or the comment may be due to be posted again
WatchFind(i) ==
  /\ watcher[i].pc = "find"
  /\ \/ /\ GitHubFails
        /\ watcher' = [watcher EXCEPT ![i] = PollError(i)]
        /\ UNCHANGED <<registry, landed>>
     \/ /\ Fresh(i) # {}
        /\ watcher' = [watcher EXCEPT ![i] = NoWatcher]
        /\ Complete(i)
        /\ UNCHANGED reviewFaults
     \/ /\ Fresh(i) = {}
        /\ \E pc \in {"read"} \union (IF MayPost THEN {"post"} ELSE {}) : watcher' = [watcher EXCEPT ![i].pc = pc]
        /\ UNCHANGED <<registry, landed, reviewFaults>>
  /\ UNCHANGED <<github, creator, creating, reviewCrashes>>

\* A retry posts the comment again; when that fails the watcher is over
WatchPost(i) ==
  /\ watcher[i].pc = "post"
  /\ \/ /\ github' = Posted
        /\ watcher' = [watcher EXCEPT ![i].pc = "retry", ![i].posted = Posted.now]
        /\ UNCHANGED reviewFaults
     \/ /\ GitHubFails
        /\ watcher' = [watcher EXCEPT ![i] = [NoWatcher EXCEPT !.pc = "failed"]]
        /\ UNCHANGED github
  /\ UNCHANGED <<registry, creator, creating, landed, reviewCrashes>>

\* retry_codex_review_request_in_path: reviews are now looked for since the new comment
WatchRetry(i) ==
  /\ watcher[i].pc = "retry"
  /\ registry' = IF i \in Active THEN [registry EXCEPT ![i].since = watcher[i].posted] ELSE registry
  /\ watcher' = [watcher EXCEPT ![i].pc = "read"]
  /\ UNCHANGED <<github, creator, creating, landed, reviewFaults, reviewCrashes>>

\* The server stops and comes back: recover_codex_review_request_watchers
ReviewCrash ==
  /\ reviewCrashes < ReviewCrashes
  /\ reviewCrashes' = reviewCrashes + 1
  /\ creator' = [o \in Owners |-> NoCreator] /\ creating' = FALSE
  /\ watcher' = [i \in DOMAIN watcher |-> IF i \in Active THEN NewWatcher ELSE NoWatcher]
  /\ UNCHANGED <<github, registry, landed, reviewFaults>>

-----------------------------------------------------------------------------

ReviewInit ==
  /\ github = [head |-> 1, now |-> 0, asked |-> 0, reviews |-> {}]
  /\ registry = <<>> /\ creator = [o \in Owners |-> NoCreator] /\ creating = FALSE
  /\ watcher = [i \in 1 .. MaxRequests |-> NoWatcher] /\ landed = {}
  /\ reviewFaults = 0 /\ reviewCrashes = 0

CreateStep(o) == ReviewBegin(o) \/ CreateCheck(o) \/ CreatePost(o) \/ CreateRegister(o)
WatchStep(i) == WatchRead(i) \/ WatchFind(i) \/ WatchPost(i) \/ WatchRetry(i)

ReviewNext ==
  \/ Push \/ CodexReviews \/ ReviewCrash
  \/ \E o \in Owners : CreateStep(o)
  \/ \E i \in DOMAIN registry : CancelReview(i)
  \/ \E i \in DOMAIN watcher : WatchStep(i)

\* The tasks of the server go on
ReviewFairness == \A i \in 1 .. MaxRequests : WF_reviewVars(WatchStep(i))

ReviewSpec == ReviewInit /\ [][ReviewNext]_reviewVars /\ ReviewFairness

-----------------------------------------------------------------------------
(* Properties *)

ReviewTypeOK ==
  /\ github.head \in 1 .. MaxHeads /\ landed \subseteq DOMAIN registry
  /\ \A i \in DOMAIN registry :
       registry[i].state \in {"active", "superseded", "cancelled", "completed"}
  /\ \A i \in DOMAIN watcher : watcher[i].pc \in {"none", "failed", "read", "find", "post", "retry"}

\* An active request has a watcher, or one that ended when it could not post the comment
\* again, whatever failed polls, conflicts, repeated requests and restarts have done; and the
\* pull request has one active request at most.
ReviewIsWatched ==
  /\ Cardinality(Active) <= 1
  /\ \A i \in Active : watcher[i].pc # "none"

Unreported(i) ==
  i \in Active /\ \E r \in github.reviews : r.at > registry[i].since /\ r.head = registry[i].head

ReviewSettled(i) == ~Unreported(i) \/ watcher[i].pc = "failed"

\* A request whose review has landed since its last comment does not stay active for ever, unless
\* the comment is posted again and reviews are looked for since then, or that failed.
ReviewReported == \A i \in 1 .. MaxRequests : Unreported(i) ~> ReviewSettled(i)
=============================================================================
