------------------------------- MODULE Boards -------------------------------
(***************************************************************************)
(* The boards of work orders: billing.html and shipping.html list the      *)
(* orders in one status every three seconds and have a button for each,    *)
(* which asks the server to move the order on.  Beside them the scheduler  *)
(* and other users move and create orders (OrderPipeline, which            *)
(* WorkOrderService implements).                                           *)
(*                                                                         *)
(* A page does not wait for one listing before it asks for the next, so    *)
(* answers can come in any order.  The network is external: a call may     *)
(* fail on the way there or back.  A listing draws every button anew; the  *)
(* answer to a click changes the button that was clicked, displayed or not.*)
(***************************************************************************)
EXTENDS Naturals

CONSTANTS
    Ids, Absent, Seed,   \* of OrderPipeline
    Pages,
    Role,        \* page -> the status of the orders it lists
    Calls,       \* bound: a page's POSTs in flight have numbers of this set
    Fetches,     \* bound: and its requests for a listing numbers of this one
    MaxCreates,  \* bound: orders created
    MaxFaults,   \* bound: calls that fail
    NoCard,      \* the page shows no card of this order
    NoCall       \* this number is not in use

Stages   == {"PENDING", "BILLED"}
Statuses == Stages \cup {"SHIPPED"}

VARIABLES
    orders, completed,  \* of OrderPipeline
    created,   \* orders created
    faults,    \* calls that have failed
    left,      \* history: status, id -> how often an order of this id has left it
    cards,     \* page, id -> the card it shows: its button, and left when it was listed
    fetches,   \* page, number -> listing on its way to it: id -> left, or NoCard
    posts      \* page, number -> POST on its way there ("sent") or back ("done"),
               \* and whether the button it came from is displayed

vars == <<orders, completed, created, faults, left, cards, fetches, posts>>

Pipeline == INSTANCE OrderPipeline

MaxLeft  == MaxCreates + 1
Cards    == [button : {"ready", "busy", "success", "failed"}, seen : 0..MaxLeft]
Listings == [Ids -> 0..MaxLeft \cup {NoCard}]
Posts    == [id : Ids, stage : {"sent", "done"}, shown : BOOLEAN]

ASSUME BoardsAssumption ==
    /\ Role \in [Pages -> Stages]
    /\ {MaxCreates, MaxFaults} \subseteq Nat
    /\ Seed \in [Ids -> Statuses \cup {Absent}] /\ Absent \notin Statuses
    /\ NoCard \notin Cards \cup Nat

TypeOK ==
    /\ Pipeline!TypeOK
    /\ created \in 0..MaxCreates
    /\ faults \in 0..MaxFaults
    /\ left \in [Stages -> [Ids -> 0..MaxLeft]]
    /\ cards \in [Pages -> [Ids -> Cards \cup {NoCard}]]
    /\ fetches \in [Pages -> [Fetches -> Listings \cup {NoCall}]]
    /\ posts \in [Pages -> [Calls -> Posts \cup {NoCall}]]
    (* A POST whose button is still displayed has kept it busy. *)
    /\ \A p \in Pages, n \in Calls : posts[p][n] # NoCall /\ posts[p][n].shown =>
         cards[p][posts[p][n].id].button = "busy"

Init ==
    /\ Pipeline!Init
    /\ created = 0 /\ faults = 0
    /\ left = [s \in Stages |-> [id \in Ids |-> 0]]
    /\ cards = [p \in Pages |-> [id \in Ids |-> NoCard]]
    /\ fetches = [p \in Pages |-> [k \in Fetches |-> NoCall]]
    /\ posts = [p \in Pages |-> [n \in Calls |-> NoCall]]

page == <<cards, fetches, posts>>

-----------------------------------------------------------------------------
(* The server *)

Leave(id) == left' = [s \in Stages |-> [left[s] EXCEPT ![id] = IF orders[id] = s THEN @ + 1 ELSE @]]

(* Someone creates an order, possibly in the place of another. *)
Create(id, s) ==
    /\ created < MaxCreates
    /\ created' = created + 1
    /\ Pipeline!Create(id, s)
    /\ Leave(id)
    /\ UNCHANGED <<faults, page>>

Move(id) == (Pipeline!Bill(id) \/ Pipeline!Ship(id)) /\ Leave(id)

(* The scheduler, or a page on another screen. *)
MoveElsewhere(id) == Move(id) /\ UNCHANGED <<created, faults, page>>

-----------------------------------------------------------------------------
(* A page *)

SetButton(p, id, b) == cards' = [cards EXCEPT ![p][id].button = b]

Listed(p) == [id \in Ids |-> IF orders[id] = Role[p] THEN left[Role[p]][id] ELSE NoCard]

(* Faulty: the page does not ask while a call is being processed. *)
PollWhenIdle(p, k) ==
    /\ fetches[p][k] = NoCall
    /\ \A id \in Ids : cards[p][id] # NoCard => cards[p][id].button # "busy"
    /\ fetches' = [fetches EXCEPT ![p][k] = Listed(p)]
    /\ UNCHANGED <<orders, completed, created, faults, left, cards, posts>>

(* setInterval, or 800 ms after a success: the server lists the orders. *)
Poll(p, k) ==
    /\ fetches[p][k] = NoCall
    /\ fetches' = [fetches EXCEPT ![p][k] = Listed(p)]
    /\ UNCHANGED <<orders, completed, created, faults, left, cards, posts>>

(* Faulty: a call goes on with the button its order gets. *)
DrawInPlace(p, f) ==
    /\ cards' = [cards EXCEPT ![p] =
         [id \in Ids |-> IF f[id] = NoCard THEN NoCard ELSE [button |-> "ready", seen |-> f[id]]]]
    /\ UNCHANGED posts

(* Faulty: an order that is displayed keeps its card. *)
DrawNew(p, f) ==
    /\ cards' = [cards EXCEPT ![p] =
         [id \in Ids |-> IF f[id] = NoCard THEN NoCard
                        ELSE IF cards[p][id] # NoCard THEN [cards[p][id] EXCEPT !.seen = f[id]]
                        ELSE [button |-> "ready", seen |-> f[id]]]]
    /\ posts' = [posts EXCEPT ![p] =
         [n \in Calls |-> IF posts[p][n] # NoCall /\ f[posts[p][n].id] = NoCard
                          THEN [posts[p][n] EXCEPT !.shown = FALSE] ELSE posts[p][n]]]

Draw(p, f) ==
    /\ cards' = [cards EXCEPT ![p] =
         [id \in Ids |-> IF f[id] = NoCard THEN NoCard ELSE [button |-> "ready", seen |-> f[id]]]]
    /\ posts' = [posts EXCEPT ![p] =
         [n \in Calls |-> IF posts[p][n] = NoCall THEN NoCall ELSE [posts[p][n] EXCEPT !.shown = FALSE]]]

(* Faulty: an empty listing is not drawn. *)
RenderOrders(p, k) ==
    /\ fetches[p][k] # NoCall
    /\ fetches' = [fetches EXCEPT ![p][k] = NoCall]
    /\ IF \A id \in Ids : fetches[p][k][id] = NoCard THEN UNCHANGED <<cards, posts>>
       ELSE Draw(p, fetches[p][k])
    /\ UNCHANGED <<orders, completed, created, faults, left>>

(* The answer to a listing, whichever came before: the list is cleared and *)
(* a card is made for each order.                                          *)
Render(p, k) ==
    /\ fetches[p][k] # NoCall
    /\ fetches' = [fetches EXCEPT ![p][k] = NoCall]
    /\ Draw(p, fetches[p][k])
    /\ UNCHANGED <<orders, completed, created, faults, left>>

(* No answer, or one that is not JSON: the page logs it and keeps what it *)
(* shows.                                                                  *)
LoseListing(p, k) ==
    /\ fetches[p][k] # NoCall
    /\ faults < MaxFaults
    /\ faults' = faults + 1
    /\ fetches' = [fetches EXCEPT ![p][k] = NoCall]
    /\ UNCHANGED <<orders, completed, created, left, cards, posts>>

(* An error that is answered as JSON is not told from a listing: the list  *)
(* is cleared, and says that nothing is left to do, before forEach throws. *)
Misread(p, k) ==
    /\ fetches[p][k] # NoCall
    /\ faults < MaxFaults
    /\ faults' = faults + 1
    /\ fetches' = [fetches EXCEPT ![p][k] = NoCall]
    /\ Draw(p, [id \in Ids |-> NoCard])
    /\ UNCHANGED <<orders, completed, created, left>>

Click(p, id, n) ==
    /\ cards[p][id] # NoCard
    /\ cards[p][id].button \in {"ready", "failed"}
    /\ posts[p][n] = NoCall
    /\ posts' = [posts EXCEPT ![p][n] = [id |-> id, stage |-> "sent", shown |-> TRUE]]
    /\ SetButton(p, id, "busy")
    /\ UNCHANGED <<orders, completed, created, faults, left, fetches>>

(* billOrder, shipOrder: the answer says success whatever they found. *)
Process(p, n) ==
    /\ posts[p][n] # NoCall
    /\ posts[p][n].stage = "sent"
    /\ posts' = [posts EXCEPT ![p][n].stage = "done"]
    /\ IF orders[posts[p][n].id] = Role[p]
       THEN Move(posts[p][n].id)
       ELSE UNCHANGED <<orders, completed, left>>
    /\ UNCHANGED <<created, faults, cards, fetches>>

Succeed(p, n) ==
    /\ posts[p][n] # NoCall
    /\ posts[p][n].stage = "done"
    /\ posts' = [posts EXCEPT ![p][n] = NoCall]
    /\ IF posts[p][n].shown THEN SetButton(p, posts[p][n].id, "success") ELSE UNCHANGED cards
    /\ UNCHANGED <<orders, completed, created, faults, left, fetches>>

(* An answer that is not ok: nothing was done and the button stays busy. *)
Refuse(p, n) ==
    /\ posts[p][n] # NoCall
    /\ posts[p][n].stage = "sent"
    /\ faults < MaxFaults
    /\ faults' = faults + 1
    /\ posts' = [posts EXCEPT ![p][n] = NoCall]
    /\ UNCHANGED <<orders, completed, created, left, cards, fetches>>

(* fetch throws: the button can be clicked again, though the POST may have *)
(* arrived or arrive yet.                                                  *)
Fail(p, n) ==
    /\ posts[p][n] # NoCall
    /\ faults < MaxFaults
    /\ faults' = faults + 1
    /\ \E post \in {NoCall, [posts[p][n] EXCEPT !.shown = FALSE]} :
         posts' = [posts EXCEPT ![p][n] = post]
    /\ IF posts[p][n].shown THEN SetButton(p, posts[p][n].id, "failed") ELSE UNCHANGED cards
    /\ UNCHANGED <<orders, completed, created, left, fetches>>

-----------------------------------------------------------------------------
Next ==
    \/ \E id \in Ids : MoveElsewhere(id) \/ \E s \in Statuses : Create(id, s)
    \/ \E p \in Pages :
         \/ \E k \in Fetches : Poll(p, k) \/ Render(p, k) \/ LoseListing(p, k) \/ Misread(p, k)
         \/ \E id \in Ids, n \in Calls : Click(p, id, n)
         \/ \E n \in Calls : Process(p, n) \/ Succeed(p, n) \/ Refuse(p, n) \/ Fail(p, n)

(* The timers go on and what is in flight arrives or fails; nothing is     *)
(* assumed of users, of the scheduler or of the network but that its       *)
(* faults end.                                                             *)
Fairness == \A p \in Pages :
    /\ WF_vars(\E k \in Fetches : Poll(p, k))
    /\ \A k \in Fetches : WF_vars(Render(p, k))
    /\ \A n \in Calls : WF_vars(Process(p, n) \/ Succeed(p, n))

Spec == Init /\ [][Next]_vars /\ Fairness

-----------------------------------------------------------------------------
(* A button says that the payment or the dispatch has succeeded only if    *)
(* the order has left the status it was listed in, by this click or by     *)
(* another's: though every POST is answered with success, though cards are *)
(* drawn anew under a POST and answers come in any order.                  *)
SuccessMeansMoved ==
    \A p \in Pages, id \in Ids :
        cards[p][id] # NoCard /\ cards[p][id].button = "success"
            => left[Role[p]][id] > cards[p][id].seen

(* A button does not stay on "Processing", even if its call is refused or  *)
(* its answer lost.                                                        *)
ButtonsFreed ==
    \A p \in Pages, id \in Ids :
        (cards[p][id] # NoCard /\ cards[p][id].button = "busy")
            ~> (cards[p][id] = NoCard \/ cards[p][id].button # "busy")

(* Once orders stop changing a page comes to show what there is to do and  *)
(* goes on showing it: an answer that comes late, and an error taken for   *)
(* an empty listing, are corrected.                                        *)
ShowsListing ==
    <>[](\A p \in Pages, id \in Ids : cards[p][id] # NoCard <=> orders[id] = Role[p])
=============================================================================
