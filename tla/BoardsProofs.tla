---------------------------- MODULE BoardsProofs ----------------------------
(***************************************************************************)
(* Proofs about Boards for any number of pages, orders, listings and calls *)
(* in flight, and any faults.                                              *)
(***************************************************************************)
EXTENDS Boards, TLAPS

(* An order of this id was in the status the page lists when it had left   *)
(* it n times: it still is, or has left it again.                          *)
Past(p, id, n) == /\ n <= left[Role[p]][id]
                  /\ n = left[Role[p]][id] => orders[id] = Role[p]

CardsPast    == \A p \in Pages, id \in Ids :
                  cards[p][id] # NoCard => Past(p, id, cards[p][id].seen)
ListingsPast == \A p \in Pages, k \in Fetches, id \in Ids :
                  fetches[p][k] # NoCall /\ fetches[p][k][id] # NoCard => Past(p, id, fetches[p][k][id])

Shown(p, n) == posts[p][n] # NoCall /\ posts[p][n].shown

(* A button displayed has at most one POST, and what it answers is true.   *)
ShownPosts   == \A p \in Pages, n \in Calls : Shown(p, n) =>
                  /\ cards[p][posts[p][n].id] # NoCard
                  /\ \A m \in Calls : Shown(p, m) /\ posts[p][m].id = posts[p][n].id => m = n
AnswersTrue  == \A p \in Pages, n \in Calls : Shown(p, n) /\ posts[p][n].stage = "done" =>
                  left[Role[p]][posts[p][n].id] > cards[p][posts[p][n].id].seen

(* An order leaves a status once for each time it was created.             *)
Ahead(s) == IF s = "PENDING" THEN {"PENDING"} ELSE Stages
LeftBounded == \A s \in Stages, id \in Ids :
                 left[s][id] + (IF orders[id] \in Ahead(s) THEN 1 ELSE 0) <= created + 1

ServerInv == /\ Pipeline!TypeOK
             /\ created \in 0..MaxCreates
             /\ left \in [Stages -> [Ids -> 0..MaxLeft]]
             /\ LeftBounded
PageInv   == /\ CardsPast /\ ListingsPast
             /\ ShownPosts /\ AnswersTrue
             /\ SuccessMeansMoved
IInv      == TypeOK /\ LeftBounded /\ PageInv

LEMMA InitInvariant == Init => IInv
<1> SUFFICES ASSUME Init PROVE IInv
  OBVIOUS
<1> USE BoardsAssumption
<1>1. /\ orders = Seed /\ completed = 0 /\ created = 0 /\ faults = 0
      /\ left = [s \in Stages |-> [id \in Ids |-> 0]]
      /\ cards = [p \in Pages |-> [id \in Ids |-> NoCard]]
      /\ fetches = [p \in Pages |-> [k \in Fetches |-> NoCall]]
      /\ posts = [p \in Pages |-> [n \in Calls |-> NoCall]]
  BY DEF Init, Pipeline!Init
<1>2. TypeOK
  BY <1>1 DEF TypeOK, Pipeline!TypeOK, MaxLeft
<1>3. LeftBounded
  BY <1>1 DEF LeftBounded
<1>4. PageInv
  BY <1>1 DEF PageInv, CardsPast, ListingsPast, ShownPosts, AnswersTrue, SuccessMeansMoved, Shown
<1> QED
  BY <1>2, <1>3, <1>4 DEF IInv

-----------------------------------------------------------------------------
(* The server *)

(* Nothing that was listed before is listed without having left.           *)
Onwards == \A p \in Pages, id \in Ids, n \in Nat :
    /\ Past(p, id, n) => Past(p, id, n)'
    /\ left[Role[p]][id] > n => left'[Role[p]][id] > n

LEMMA LeaveCounts ==
    ASSUME ServerInv, NEW id \in Ids, NEW s \in Statuses, Leave(id),
           orders' = [orders EXCEPT ![id] = s],
           completed' \in Nat,
           \/ created < MaxCreates /\ created' = created + 1
           \/ created' = created /\ orders[id] = "PENDING" /\ s = "BILLED"
           \/ created' = created /\ orders[id] = "BILLED" /\ s = "SHIPPED"
    PROVE  ServerInv' /\ Onwards
<1> USE BoardsAssumption
<1>1. /\ orders' \in [Ids -> Statuses \cup {Absent}]
      /\ orders'[id] = s /\ \A i \in Ids \ {id} : orders'[i] = orders[i]
      /\ created' \in 0..MaxCreates
  BY DEF ServerInv, Pipeline!TypeOK
<1>2. \A t \in Stages, i \in Ids :
        left'[t][i] = IF i = id /\ orders[id] = t THEN left[t][i] + 1 ELSE left[t][i]
  BY DEF Leave, ServerInv
<1>3. LeftBounded'
  BY <1>1, <1>2 DEF LeftBounded, ServerInv, Ahead, Stages, Statuses
<1>4. left' \in [Stages -> [Ids -> 0..MaxLeft]]
  <2>1. \A t \in Stages, i \in Ids : left'[t][i] \in 0..MaxLeft
    BY <1>1, <1>2, <1>3, SMTT(30) DEF LeftBounded, ServerInv, MaxLeft
  <2> QED
    BY <2>1 DEF Leave, ServerInv
<1>5. Onwards
  BY <1>1, <1>2 DEF Onwards, Past, ServerInv, Stages, Statuses
<1> QED
  BY <1>1, <1>3, <1>4, <1>5 DEF ServerInv, Pipeline!TypeOK

LEMMA CreateKeeps ==
    ASSUME ServerInv, NEW id \in Ids, NEW s \in Statuses, Create(id, s)
    PROVE  ServerInv' /\ Onwards
  BY LeaveCounts DEF Create, Pipeline!Create, ServerInv, Pipeline!TypeOK

LEMMA MoveKeeps ==
    ASSUME ServerInv, NEW id \in Ids, Move(id), UNCHANGED created
    PROVE  /\ ServerInv' /\ Onwards
           /\ orders[id] \in Stages
           /\ left'[orders[id]][id] = left[orders[id]][id] + 1
<1>1. orders[id] \in Stages
  BY DEF Move, Pipeline!Bill, Pipeline!Ship, Stages
<1>2. left'[orders[id]][id] = left[orders[id]][id] + 1
  BY <1>1 DEF Move, Leave, ServerInv
<1>3. ServerInv' /\ Onwards
  <2>1. Leave(id) /\ completed' \in Nat
    BY DEF Move, Pipeline!Bill, Pipeline!Ship, ServerInv, Pipeline!TypeOK
  <2>2. CASE Pipeline!Bill(id)
    BY <2>1, <2>2, LeaveCounts DEF Pipeline!Bill, Stages, Statuses
  <2>3. CASE Pipeline!Ship(id)
    BY <2>1, <2>3, LeaveCounts DEF Pipeline!Ship, Stages, Statuses
  <2> QED
    BY <2>2, <2>3 DEF Move
<1> QED
  BY <1>1, <1>2, <1>3

LEMMA PagesAside ==
    ASSUME IInv, ServerInv', Onwards, faults' = faults, UNCHANGED page
    PROVE  IInv'
<1> USE DEF IInv, PageInv
<1>1. TypeOK'
  BY DEF TypeOK, ServerInv, page
<1>2. LeftBounded'
  BY DEF ServerInv
<1>3. CardsPast'
  BY DEF CardsPast, Onwards, page, TypeOK, Cards
<1>4. ListingsPast'
  BY DEF ListingsPast, Onwards, page, TypeOK, Listings
<1>5. ShownPosts'
  BY DEF ShownPosts, Shown, page
<1>6. AnswersTrue'
  <2> SUFFICES ASSUME NEW p \in Pages, NEW n \in Calls, Shown(p, n), posts[p][n].stage = "done"
               PROVE  left'[Role[p]][posts[p][n].id] > cards[p][posts[p][n].id].seen
    BY DEF AnswersTrue, Shown, page
  <2>1. posts[p][n].id \in Ids /\ cards[p][posts[p][n].id].seen \in Nat
    BY DEF ShownPosts, Shown, TypeOK, Posts, Cards
  <2> QED
    BY <2>1 DEF AnswersTrue, Onwards
<1>7. SuccessMeansMoved'
  BY DEF SuccessMeansMoved, Onwards, page, TypeOK, Cards
<1> QED
  BY <1>1, <1>2, <1>3, <1>4, <1>5, <1>6, <1>7

-----------------------------------------------------------------------------
(* Listings *)

LEMMA PollKeeps ==
    ASSUME IInv, NEW p \in Pages, NEW k \in Fetches, Poll(p, k)
    PROVE  IInv'
<1> USE DEF IInv, PageInv
<1>1. Listed(p) \in Listings
  BY BoardsAssumption DEF Listed, Listings, TypeOK
<1>2. TypeOK'
  BY <1>1 DEF Poll, TypeOK, Pipeline!TypeOK
<1>3. LeftBounded' /\ CardsPast' /\ ShownPosts' /\ AnswersTrue' /\ SuccessMeansMoved'
  BY DEF Poll, LeftBounded, CardsPast, Past, ShownPosts, AnswersTrue, Shown, SuccessMeansMoved
<1>4. ListingsPast'
  <2>1. \A id \in Ids : Listed(p)[id] # NoCard => Past(p, id, Listed(p)[id])
    BY BoardsAssumption DEF Listed, Past, TypeOK
  <2> QED
    BY <2>1 DEF Poll, ListingsPast, Past, TypeOK
<1> QED
  BY <1>2, <1>3, <1>4

(* A list drawn shows what it was told, and no POST has a button of it. *)
LEMMA DrawKeeps ==
    ASSUME IInv, NEW p \in Pages, NEW k \in Fetches,
           NEW f \in Listings, \A id \in Ids : f[id] # NoCard => Past(p, id, f[id]),
           Draw(p, f),
           UNCHANGED <<orders, completed, created, left>>, faults' \in 0..MaxFaults,
           fetches' = [fetches EXCEPT ![p][k] = NoCall]
    PROVE  IInv'
<1> USE DEF IInv, PageInv
<1>1. \A id \in Ids : f[id] # NoCard => Past(p, id, f[id])
  OBVIOUS
<1>2. cards' = [cards EXCEPT ![p] =
         [id \in Ids |-> IF f[id] = NoCard THEN NoCard ELSE [button |-> "ready", seen |-> f[id]]]]
  BY DEF Draw
<1>3. posts' = [posts EXCEPT ![p] =
         [n \in Calls |-> IF posts[p][n] = NoCall THEN NoCall ELSE [posts[p][n] EXCEPT !.shown = FALSE]]]
  BY DEF Draw
<1>4. /\ cards' \in [Pages -> [Ids -> Cards \cup {NoCard}]]
      /\ \A q \in Pages \ {p} : cards'[q] = cards[q]
      /\ \A id \in Ids : IF f[id] = NoCard THEN cards'[p][id] = NoCard
                          ELSE cards'[p][id].button = "ready" /\ cards'[p][id].seen = f[id]
  BY <1>1, <1>2 DEF TypeOK, Cards, Listings
<1>5. /\ posts' \in [Pages -> [Calls -> Posts \cup {NoCall}]]
      /\ \A q \in Pages, n \in Calls :
           Shown(q, n)' => q # p /\ Shown(q, n) /\ posts'[q][n] = posts[q][n]
  <2>1. \A n \in Calls : posts[p][n] # NoCall =>
          /\ [posts[p][n] EXCEPT !.shown = FALSE] \in Posts
          /\ [posts[p][n] EXCEPT !.shown = FALSE].shown = FALSE
    <3>1. \A x \in Posts : [x EXCEPT !.shown = FALSE] \in Posts /\ [x EXCEPT !.shown = FALSE].shown = FALSE
      BY DEF Posts
    <3> QED
      BY <3>1 DEF TypeOK
  <2>2. \A n \in Calls : posts'[p][n] = IF posts[p][n] = NoCall THEN NoCall
                                        ELSE [posts[p][n] EXCEPT !.shown = FALSE]
    BY <1>3 DEF TypeOK
  <2>3. DOMAIN posts' = Pages /\ DOMAIN posts'[p] = Calls /\ \A q \in Pages \ {p} : posts'[q] = posts[q]
    BY <1>3 DEF TypeOK
  <2>4. posts' \in [Pages -> [Calls -> Posts \cup {NoCall}]]
    <3>1. posts'[p] \in [Calls -> Posts \cup {NoCall}]
      BY <1>3, <2>1, <2>2 DEF TypeOK
    <3> QED
      BY <1>3, <2>3, <3>1 DEF TypeOK
  <2>5. ASSUME NEW q \in Pages, NEW n \in Calls, Shown(q, n)'
        PROVE  q # p /\ Shown(q, n) /\ posts'[q][n] = posts[q][n]
    <3>1. CASE q = p
      BY <2>1, <2>2, <2>5, <3>1 DEF Shown
    <3>2. CASE q # p
      BY <2>3, <2>5, <3>2 DEF Shown
    <3> QED
      BY <3>1, <3>2
  <2> QED
    BY <2>4, <2>5
<1>6. TypeOK'
  <2>1. \A q \in Pages, n \in Calls : Shown(q, n)' => cards'[q][posts'[q][n].id].button = "busy"
    BY <1>4, <1>5 DEF TypeOK, Shown
  <2> QED
    BY <1>1, <1>4, <1>5, <2>1 DEF TypeOK, Shown, Pipeline!TypeOK
<1>7. LeftBounded' /\ ListingsPast'
  BY <1>1 DEF LeftBounded, ListingsPast, Past, TypeOK
<1>8. CardsPast'
  BY <1>1, <1>4 DEF CardsPast, Past
<1>9. ShownPosts' /\ AnswersTrue'
  <2>1. \A q \in Pages \ {p} : cards'[q] = cards[q]
    BY <1>4
  <2>2. ShownPosts'
    BY <1>5, <2>1 DEF ShownPosts
  <2>3. AnswersTrue'
    BY <1>1, <1>5, <2>1 DEF AnswersTrue
  <2> QED
    BY <2>2, <2>3
<1>10. SuccessMeansMoved'
  BY <1>1, <1>4 DEF SuccessMeansMoved
<1> QED
  BY <1>6, <1>7, <1>8, <1>9, <1>10

LEMMA RenderKeeps ==
    ASSUME IInv, NEW p \in Pages, NEW k \in Fetches, Render(p, k)
    PROVE  IInv'
<1>1. /\ fetches[p][k] \in Listings
      /\ \A id \in Ids : fetches[p][k][id] # NoCard => Past(p, id, fetches[p][k][id])
      /\ faults' \in 0..MaxFaults
  BY DEF Render, IInv, PageInv, TypeOK, ListingsPast
<1> QED
  BY <1>1, DrawKeeps DEF Render

LEMMA MisreadKeeps ==
    ASSUME IInv, NEW p \in Pages, NEW k \in Fetches, Misread(p, k)
    PROVE  IInv'
<1> DEFINE f == [id \in Ids |-> NoCard]
<1>1. f \in Listings /\ \A id \in Ids : f[id] # NoCard => Past(p, id, f[id])
  BY DEF Listings
<1>2. faults' \in 0..MaxFaults
  BY BoardsAssumption DEF Misread, IInv, TypeOK
<1>3. /\ Draw(p, f)
      /\ fetches' = [fetches EXCEPT ![p][k] = NoCall]
      /\ UNCHANGED <<orders, completed, created, left>>
  BY DEF Misread
<1> HIDE DEF f
<1> QED
  BY <1>1, <1>2, <1>3, DrawKeeps

LEMMA LoseListingKeeps ==
    ASSUME IInv, NEW p \in Pages, NEW k \in Fetches, LoseListing(p, k)
    PROVE  IInv'
<1> USE DEF IInv, PageInv
<1>1. /\ UNCHANGED <<orders, completed, created, left, cards, posts>>
      /\ faults' \in 0..MaxFaults
      /\ fetches' = [fetches EXCEPT ![p][k] = NoCall]
  BY BoardsAssumption DEF LoseListing, TypeOK
<1>2. TypeOK'
  BY <1>1 DEF TypeOK, Pipeline!TypeOK
<1>3. LeftBounded' /\ CardsPast' /\ ListingsPast'
  BY <1>1 DEF LeftBounded, CardsPast, ListingsPast, Past, TypeOK
<1>4. ShownPosts' /\ AnswersTrue' /\ SuccessMeansMoved'
  BY <1>1 DEF ShownPosts, AnswersTrue, Shown, SuccessMeansMoved
<1> QED
  BY <1>2, <1>3, <1>4

-----------------------------------------------------------------------------
(* Clicks *)

LEMMA ClickKeeps ==
    ASSUME IInv, NEW p \in Pages, NEW id \in Ids, NEW n \in Calls, Click(p, id, n)
    PROVE  IInv'
<1> USE DEF IInv, PageInv
<1>1. /\ UNCHANGED <<orders, completed, created, faults, left, fetches>>
      /\ cards[p][id] # NoCard /\ cards[p][id].button # "busy" /\ cards[p][id] \in Cards
      /\ posts' = [posts EXCEPT ![p][n] = [id |-> id, stage |-> "sent", shown |-> TRUE]]
      /\ cards' = [cards EXCEPT ![p][id].button = "busy"]
  BY DEF Click, SetButton, TypeOK
<1>2. /\ cards' \in [Pages -> [Ids -> Cards \cup {NoCard}]]
      /\ \A q \in Pages, i \in Ids : <<q, i>> # <<p, id>> => cards'[q][i] = cards[q][i]
      /\ cards'[p][id].button = "busy" /\ cards'[p][id].seen = cards[p][id].seen
      /\ cards'[p][id] \in Cards
  BY <1>1 DEF TypeOK, Cards
<1>3. /\ posts' \in [Pages -> [Calls -> Posts \cup {NoCall}]]
      /\ \A q \in Pages, m \in Calls : <<q, m>> # <<p, n>> => posts'[q][m] = posts[q][m]
      /\ posts'[p][n].id = id /\ posts'[p][n].stage = "sent"
  BY <1>1 DEF TypeOK, Posts
<1>4. ASSUME NEW q \in Pages, NEW m \in Calls, Shown(q, m)', <<q, m>> # <<p, n>>
      PROVE  /\ Shown(q, m) /\ posts'[q][m] = posts[q][m] /\ posts[q][m].id \in Ids
             /\ <<q, posts[q][m].id>> # <<p, id>>
             /\ cards'[q][posts[q][m].id] = cards[q][posts[q][m].id]
  <2>1. Shown(q, m) /\ posts'[q][m] = posts[q][m]
    BY <1>3, <1>4 DEF Shown
  <2>2. posts[q][m].id \in Ids /\ cards[q][posts[q][m].id].button = "busy"
    BY <2>1 DEF Shown, TypeOK, Posts
  <2> QED
    BY <1>1, <1>2, <2>1, <2>2
<1>5. \A m \in Calls \ {n} : Shown(p, m)' => posts'[p][m].id # posts'[p][n].id
  BY <1>3, <1>4
<1>6. TypeOK'
  <2>1. \A q \in Pages, m \in Calls : Shown(q, m)' => cards'[q][posts'[q][m].id].button = "busy"
    <3> SUFFICES ASSUME NEW q \in Pages, NEW m \in Calls, Shown(q, m)'
                 PROVE  cards'[q][posts'[q][m].id].button = "busy"
      OBVIOUS
    <3>1. CASE <<q, m>> # <<p, n>>
      BY <1>4, <3>1 DEF TypeOK, Shown
    <3>2. CASE q = p /\ m = n
      BY <1>2, <1>3, <3>2
    <3> QED
      BY <3>1, <3>2
  <2> QED
    BY <1>1, <1>2, <1>3, <2>1 DEF TypeOK, Shown, Pipeline!TypeOK
<1>7. LeftBounded' /\ ListingsPast'
  BY <1>1 DEF LeftBounded, ListingsPast, Past
<1>8. CardsPast' /\ SuccessMeansMoved'
  BY <1>1, <1>2 DEF CardsPast, SuccessMeansMoved, Past
<1>9. ShownPosts'
  <2> SUFFICES ASSUME NEW q \in Pages, NEW m \in Calls, Shown(q, m)'
               PROVE  /\ cards'[q][posts'[q][m].id] # NoCard
                      /\ \A k \in Calls : Shown(q, k)' /\ posts'[q][k].id = posts'[q][m].id => k = m
    BY DEF ShownPosts
  <2>1. cards'[q][posts'[q][m].id] # NoCard
    BY <1>2, <1>3, <1>4, BoardsAssumption, SMTT(30) DEF ShownPosts
  <2>2. ASSUME NEW k \in Calls, Shown(q, k)', posts'[q][k].id = posts'[q][m].id, k # m
        PROVE  FALSE
    <3>1. CASE q = p /\ n \in {k, m}
      BY <1>5, <2>2, <3>1
    <3>2. CASE q # p \/ n \notin {k, m}
      BY <1>4, <2>2, <3>2 DEF ShownPosts
    <3> QED
      BY <3>1, <3>2
  <2> QED
    BY <2>1, <2>2
<1>10. AnswersTrue'
  BY <1>1, <1>3, <1>4 DEF AnswersTrue
<1> QED
  BY <1>6, <1>7, <1>8, <1>9, <1>10

(* Success moves the order or finds it moved. *)
LEMMA ProcessKeeps ==
    ASSUME IInv, NEW p \in Pages, NEW n \in Calls, Process(p, n)
    PROVE  IInv'
<1> USE DEF IInv, PageInv
<1> DEFINE id == posts[p][n].id
<1>1. /\ posts[p][n] # NoCall /\ posts[p][n] \in Posts /\ id \in Ids
      /\ UNCHANGED <<created, faults, cards, fetches>>
      /\ posts' = [posts EXCEPT ![p][n].stage = "done"]
  BY DEF Process, TypeOK, Posts
<1>2. /\ posts' \in [Pages -> [Calls -> Posts \cup {NoCall}]]
      /\ \A q \in Pages, m \in Calls : <<q, m>> # <<p, n>> => posts'[q][m] = posts[q][m]
      /\ posts'[p][n].id = id /\ posts'[p][n].shown = posts[p][n].shown
  BY <1>1 DEF TypeOK, Posts
<1>3. ServerInv
  BY DEF TypeOK, ServerInv
<1>4. /\ ServerInv' /\ Onwards
      /\ orders[id] = Role[p] => left'[Role[p]][id] = left[Role[p]][id] + 1
      /\ orders[id] # Role[p] => left' = left
  <2>1. CASE orders[id] = Role[p]
    BY <1>1, <1>3, <2>1, MoveKeeps DEF Process
  <2>2. CASE orders[id] # Role[p]
    BY <1>1, <1>3, <2>2 DEF Process, ServerInv, Onwards, Past, LeftBounded, Pipeline!TypeOK
  <2> QED
    BY <2>1, <2>2
<1> HIDE DEF id
<1>5. TypeOK'
  <2>1. \A q \in Pages, m \in Calls : posts'[q][m] # NoCall /\ posts'[q][m].shown =>
          cards'[q][posts'[q][m].id].button = "busy"
    BY <1>1, <1>2 DEF TypeOK, id
  <2> QED
    BY <1>1, <1>2, <1>4, <2>1 DEF TypeOK, ServerInv
<1>6. LeftBounded'
  BY <1>4 DEF ServerInv
<1>7. CardsPast' /\ ListingsPast'
  BY <1>1, <1>4 DEF CardsPast, ListingsPast, Onwards, TypeOK, Cards, Listings
<1>8. ShownPosts'
  BY <1>1, <1>2 DEF ShownPosts, Shown, id
<1>9. AnswersTrue'
  <2> SUFFICES ASSUME NEW q \in Pages, NEW m \in Calls, Shown(q, m)', posts'[q][m].stage = "done"
               PROVE  left'[Role[q]][posts'[q][m].id] > cards[q][posts'[q][m].id].seen
    BY <1>1 DEF AnswersTrue
  <2>1. Shown(q, m) /\ posts'[q][m].id = posts[q][m].id
    BY <1>1, <1>2 DEF Shown, id
  <2>2. posts[q][m].id \in Ids /\ cards[q][posts[q][m].id] # NoCard /\ cards[q][posts[q][m].id].seen \in Nat
    BY <2>1 DEF ShownPosts, Shown, TypeOK, Posts, Cards
  <2>3. CASE <<q, m>> # <<p, n>>
    BY <1>2, <1>4, <2>1, <2>2, <2>3 DEF AnswersTrue, Onwards
  <2>4. CASE q = p /\ m = n
    <3>1. Past(p, id, cards[p][id].seen)
      BY <2>2, <2>4 DEF CardsPast, id
    <3>2. left[Role[p]][id] \in Nat
      BY <1>1, <1>3, BoardsAssumption DEF ServerInv
    <3> QED
      BY <1>1, <1>2, <1>3, <1>4, <2>1, <2>2, <2>4, <3>1, <3>2, SMTT(30) DEF Past, id
  <2> QED
    BY <2>3, <2>4
<1>10. SuccessMeansMoved'
  <2>1. \A q \in Pages, i \in Ids : cards[q][i] # NoCard => cards[q][i].seen \in Nat
    BY DEF TypeOK, Cards
  <2> QED
    BY <1>1, <1>4, <2>1 DEF SuccessMeansMoved, Onwards
<1> QED
  BY <1>5, <1>6, <1>7, <1>8, <1>9, <1>10

(* A POST ends, or goes on without its button, which shows how it ended. *)
LEMMA PostEnds ==
    ASSUME IInv, NEW p \in Pages, NEW n \in Calls, posts[p][n] # NoCall,
           UNCHANGED <<orders, completed, created, left, fetches>>, faults' \in 0..MaxFaults,
           NEW b \in {"success", "failed"}, b = "success" => posts[p][n].stage = "done",
           UNCHANGED cards \/ (posts[p][n].shown /\ SetButton(p, posts[p][n].id, b)),
           NEW post \in {NoCall, [posts[p][n] EXCEPT !.shown = FALSE]},
           posts' = [posts EXCEPT ![p][n] = post]
    PROVE  IInv'
<1> USE DEF IInv, PageInv
<1> DEFINE id == posts[p][n].id
<1>1. posts[p][n] \in Posts /\ id \in Ids
  BY DEF TypeOK, Posts
<1>2. /\ posts' \in [Pages -> [Calls -> Posts \cup {NoCall}]]
      /\ \A q \in Pages, m \in Calls : Shown(q, m)' =>
           <<q, m>> # <<p, n>> /\ Shown(q, m) /\ posts'[q][m] = posts[q][m] /\ posts[q][m].id \in Ids
  <2>1. post \in Posts \cup {NoCall} /\ (post # NoCall => post.shown = FALSE)
    BY <1>1 DEF Posts
  <2>2. posts' \in [Pages -> [Calls -> Posts \cup {NoCall}]]
    BY <2>1 DEF TypeOK
  <2>3. ASSUME NEW q \in Pages, NEW m \in Calls, Shown(q, m)'
        PROVE  <<q, m>> # <<p, n>> /\ Shown(q, m) /\ posts'[q][m] = posts[q][m] /\ posts[q][m].id \in Ids
    <3>1. posts'[p][n] = post /\ (<<q, m>> # <<p, n>> => posts'[q][m] = posts[q][m])
      BY DEF TypeOK
    <3>2. <<q, m>> # <<p, n>> /\ Shown(q, m) /\ posts'[q][m] = posts[q][m]
      BY <2>1, <2>3, <3>1 DEF Shown
    <3>3. posts[q][m].id \in Ids
      BY <3>2 DEF Shown, TypeOK, Posts
    <3> QED
      BY <3>2, <3>3
  <2> QED
    BY <2>2, <2>3
<1>3. CASE UNCHANGED cards
  <2>1. UNCHANGED cards
    BY <1>3
  <2>2. TypeOK'
    BY <1>2, <2>1 DEF TypeOK, Shown, Pipeline!TypeOK
  <2>3. LeftBounded' /\ CardsPast' /\ ListingsPast' /\ SuccessMeansMoved'
    BY <2>1 DEF LeftBounded, CardsPast, ListingsPast, Past, SuccessMeansMoved
  <2>4. ShownPosts' /\ AnswersTrue'
    BY <1>2, <2>1 DEF ShownPosts, AnswersTrue
  <2> QED
    BY <2>2, <2>3, <2>4
<1>4. CASE posts[p][n].shown /\ SetButton(p, id, b)
  <2>1. /\ cards[p][id] # NoCard /\ cards[p][id] \in Cards
        /\ cards' = [cards EXCEPT ![p][id].button = b]
    BY <1>1, <1>4 DEF ShownPosts, Shown, TypeOK, SetButton
  <2>2. /\ cards' \in [Pages -> [Ids -> Cards \cup {NoCard}]]
        /\ \A q \in Pages, i \in Ids : <<q, i>> # <<p, id>> => cards'[q][i] = cards[q][i]
        /\ cards'[p][id].button = b /\ cards'[p][id].seen = cards[p][id].seen
    BY <1>1, <2>1 DEF TypeOK, Cards
  <2>3. \A q \in Pages, m \in Calls : Shown(q, m)' => <<q, posts[q][m].id>> # <<p, id>>
    BY <1>2, <1>4 DEF ShownPosts, Shown
  <2>4. \A q \in Pages, m \in Calls : Shown(q, m)' =>
          cards'[q][posts'[q][m].id] = cards[q][posts[q][m].id]
    BY <1>2, <2>2, <2>3
  <2>5. TypeOK'
    <3>1. \A q \in Pages, m \in Calls : Shown(q, m)' => cards'[q][posts'[q][m].id].button = "busy"
      BY <1>2, <2>4 DEF TypeOK, Shown
    <3> QED
      BY <1>2, <2>2, <3>1 DEF TypeOK, Shown, Pipeline!TypeOK
  <2>6. LeftBounded' /\ ListingsPast'
    BY DEF LeftBounded, ListingsPast, Past
  <2>7. CardsPast'
    <3>1. \A q \in Pages, i \in Ids : cards'[q][i] # NoCard =>
            cards[q][i] # NoCard /\ cards'[q][i].seen = cards[q][i].seen
      BY <2>1, <2>2
    <3> QED
      BY <3>1 DEF CardsPast, Past
  <2>8. ShownPosts'
    BY <1>2, <2>4 DEF ShownPosts
  <2>9. AnswersTrue'
    BY <1>2, <2>4 DEF AnswersTrue
  <2>10. SuccessMeansMoved'
    <3>1. b = "success" => left[Role[p]][id] > cards[p][id].seen
      BY <1>4 DEF AnswersTrue, Shown
    <3> QED
      BY <2>2, <3>1 DEF SuccessMeansMoved
  <2> QED
    BY <2>5, <2>6, <2>7, <2>8, <2>9, <2>10
<1> QED
  BY <1>3, <1>4

LEMMA AnswerKeeps ==
    ASSUME IInv, NEW p \in Pages, NEW n \in Calls, Succeed(p, n) \/ Refuse(p, n) \/ Fail(p, n)
    PROVE  IInv'
<1>1. faults' \in 0..MaxFaults /\ UNCHANGED <<orders, completed, created, left, fetches>> /\ posts[p][n] # NoCall
  BY BoardsAssumption DEF Succeed, Refuse, Fail, IInv, TypeOK
<1> DEFINE Ends(b) == UNCHANGED cards \/ (posts[p][n].shown /\ SetButton(p, posts[p][n].id, b))
<1>2. CASE Succeed(p, n)
  <2>1. Ends("success") /\ posts[p][n].stage = "done" /\ posts' = [posts EXCEPT ![p][n] = NoCall]
    BY <1>2 DEF Succeed
  <2> QED
    BY <1>1, <2>1, PostEnds
<1>3. CASE Fail(p, n)
  <2>1. PICK post \in {NoCall, [posts[p][n] EXCEPT !.shown = FALSE]} : posts' = [posts EXCEPT ![p][n] = post]
    BY <1>3 DEF Fail
  <2>2. Ends("failed")
    BY <1>3 DEF Fail
  <2> QED
    BY <1>1, <2>1, <2>2, PostEnds
<1>4. CASE Refuse(p, n)
  <2>1. Ends("failed") /\ posts' = [posts EXCEPT ![p][n] = NoCall]
    BY <1>4 DEF Refuse
  <2> QED
    BY <1>1, <2>1, PostEnds
<1> QED
  BY <1>2, <1>3, <1>4

-----------------------------------------------------------------------------
LEMMA Invariance == IInv /\ [Next]_vars => IInv'
<1> SUFFICES ASSUME IInv, [Next]_vars PROVE IInv'
  OBVIOUS
<1>1. ServerInv
  BY DEF IInv, TypeOK, ServerInv
<1>2. CASE UNCHANGED vars
  <2>1. ServerInv' /\ Onwards /\ faults' = faults /\ UNCHANGED page
    BY <1>1, <1>2 DEF vars, page, ServerInv, LeftBounded, Pipeline!TypeOK, Onwards, Past
  <2> QED
    BY <2>1, PagesAside
<1>3. ASSUME NEW id \in Ids, MoveElsewhere(id) PROVE IInv'
  <2>1. ServerInv' /\ Onwards
    BY <1>1, <1>3, MoveKeeps DEF MoveElsewhere
  <2> QED
    BY <1>3, <2>1, PagesAside DEF MoveElsewhere
<1>4. ASSUME NEW id \in Ids, NEW s \in Statuses, Create(id, s) PROVE IInv'
  <2>1. ServerInv' /\ Onwards
    BY <1>1, <1>4, CreateKeeps
  <2> QED
    BY <1>4, <2>1, PagesAside DEF Create
<1>5. ASSUME NEW p \in Pages, NEW k \in Fetches,
             Poll(p, k) \/ Render(p, k) \/ LoseListing(p, k) \/ Misread(p, k) PROVE IInv'
  BY <1>5, PollKeeps, RenderKeeps, LoseListingKeeps, MisreadKeeps
<1>6. ASSUME NEW p \in Pages, NEW id \in Ids, NEW n \in Calls, Click(p, id, n) PROVE IInv'
  BY <1>6, ClickKeeps
<1>7. ASSUME NEW p \in Pages, NEW n \in Calls,
             Process(p, n) \/ Succeed(p, n) \/ Refuse(p, n) \/ Fail(p, n) PROVE IInv'
  BY <1>7, ProcessKeeps, AnswerKeeps
<1> QED
  BY <1>2, <1>3, <1>4, <1>5, <1>6, <1>7 DEF Next

LEMMA Inductive == Spec => []IInv
  BY InitInvariant, Invariance, PTL DEF Spec

(* Every reachable state is well typed; in particular a POST that still    *)
(* has its button finds it waiting (billing.html 132-145).                 *)
THEOREM TypeCorrect == Spec => []TypeOK
<1>1. IInv => TypeOK
  BY DEF IInv
<1> QED
  BY <1>1, Inductive, PTL

(* A button says success only if its order has left the status it was      *)
(* listed in, for any number of pages, listings, clicks and faults.        *)
THEOREM SuccessSound == Spec => []SuccessMeansMoved
<1>1. IInv => SuccessMeansMoved
  BY DEF IInv, PageInv
<1> QED
  BY <1>1, Inductive, PTL
=============================================================================
