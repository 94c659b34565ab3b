------------------------------ MODULE Listings ------------------------------
(***************************************************************************)
(* What a reader sees: GET /users/:userId/requests and then                *)
(* GET /users/:userId/point-transactions, while claims are carried out.    *)
(* Each listing reads the documents and their number at once               *)
(* (Promise.all), and either read may come first.                          *)
(***************************************************************************)
EXTENDS UndisturbedClaims

VARIABLES
  visit,      \* whose lists are read, which one, and which reads are awaited
  seen        \* per listing, how many documents came back and their totalCount

visitVars == <<visit, seen>>
listingVars == <<vars, historyVars, visitVars>>

Lists == {"requests", "transactions"}
Reads == {"items", "totalCount"}

NextList == [requests |-> "transactions", transactions |-> "done"]

Nothing == [list \in Lists |-> [read \in Reads |-> 0]]

ListingInit ==
  /\ RememberedInit
  /\ visit \in [user : Users, at : {"requests"}, awaited : {{}}]
  /\ seen = Nothing

\* The request documents of a user, numbered within each event.
RequestsOf(u) == UNION {{e} \X (1..requests[<<u, e>>]) : e \in Events}

\* Mutant: the ledger is searched for the id as a string, and has ObjectIds.
ByString(list, u) ==
  IF list = "requests" THEN Cardinality(RequestsOf(u)) ELSE 0

\* What both reads of a listing match: find and countDocuments of the user.
Documents(list, u) ==
  Cardinality(IF list = "requests" THEN RequestsOf(u) ELSE EntriesOf(u))

BeginListing ==
  /\ visit.at \in Lists /\ visit.awaited = {}
  /\ visit' = [visit EXCEPT !.awaited = Reads]
  /\ UNCHANGED <<vars, historyVars, seen>>

\* One of the two reads; after the last the listing is answered.
ReadList(read) ==
  /\ read \in visit.awaited
  /\ seen' = [seen EXCEPT ![visit.at][read] = Documents(visit.at, visit.user)]
  /\ visit' = [visit EXCEPT
        !.awaited = @ \ {read},
        !.at = IF visit.awaited = {read} THEN NextList[@] ELSE @]
  /\ UNCHANGED <<vars, historyVars>>

\* Either read throws: so does Promise.all, and the reader gives up.
FailListing ==
  /\ visit.awaited # {}
  /\ visit' = [visit EXCEPT !.at = "failed", !.awaited = {}]
  /\ seen' = Nothing
  /\ UNCHANGED <<vars, historyVars>>

ListingNext ==
  \/ RememberedNext /\ UNCHANGED visitVars
  \/ BeginListing \/ FailListing
  \/ \E read \in Reads : ReadList(read)

\* The claims go on; the reader may stop at any point.
ClaimsGoOn == \A c \in Claims : WF_vars(ClaimStep(c))

ListingFairSpec == ListingInit /\ [][ListingNext]_listingVars /\ ClaimsGoOn

\* Documents and totalCount of a listing may differ, because a claim can be
\* approved between the two reads; but a reader who first sees requests and then
\* the ledger finds, by either number, no more requests than entries
\* (findRequestsByUserId, findTransactionsByUserId; createRequest writes the
\* entry first).
ListedRequestsArePaid ==
  visit.at = "done" =>
    \A read, other \in Reads : seen["requests"][read] <= seen["transactions"][other]
=============================================================================
