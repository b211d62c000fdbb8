------------------------------- MODULE Hotbar -------------------------------
(***************************************************************************)
(* The client's inventory slots and the item in the hand.  The server owns *)
(* the stock and sends it whole; the client keeps an arrangement of its    *)
(* own, mends it at the start of every frame of the game, lets the player  *)
(* drag items about, and tells the server which item the hand holds (a     *)
(* mammoth follows whoever is seen with a fruit).                          *)
(***************************************************************************)
EXTENDS Integers, Sequences, FiniteSets, Functions

CONSTANTS
    Items, Empty,      \* the types of items; the empty string
    Slots, Hot,        \* len(invSlots); how many of them the wheel goes through
    SelectCap          \* bound: SelectItem messages on their way

\* There are more slots than types of items: 256 and some twenty.
ASSUME HotbarAssumption ==
    /\ IsFiniteSet(Items) /\ Empty \notin Items
    /\ Slots \in Nat /\ Hot \in 1..Slots /\ Cardinality(Items) < Slots
    /\ SelectCap \in Nat

VARIABLES
    invSlots, selectedSlot,    \* the arrangement and the slot of the hand
    lastSentHeld,              \* what SelectItem said last
    stock,                     \* the types of which Client.inventory has some
    seen,                      \* the stock that this frame has read
    at,                        \* how far the frame is
    selects, heldItem,         \* SelectItem on its way, and the server's c.heldItem
    told                       \* history: this session has sent a SelectItem

hotbarVars == <<invSlots, selectedSlot, lastSentHeld, stock, seen, at, selects, heldItem, told>>

SlotIds == 0 .. Slots - 1
Present == {invSlots[i] : i \in SlotIds} \ {Empty}
Held == invSlots[selectedSlot]

HotbarInit ==
    /\ invSlots = [i \in SlotIds |-> Empty] /\ selectedSlot = 0 /\ lastSentHeld = Empty
    /\ stock = {} /\ seen = {} /\ at = "drawn"
    /\ selects = <<>> /\ heldItem = Empty /\ told = FALSE

\* handleInventoryUpdate: the reader goroutine replaces the inventory.
InventoryUpdate ==
    /\ stock' \in SUBSET Items
    /\ UNCHANGED <<invSlots, selectedSlot, lastSentHeld, seen, at, selects, heldItem, told>>

EmptySlots == {i \in SlotIds : invSlots[i] = Empty}

\* Mutant: what is in a slot already is looked up in the first slots only.
NewItemsHot == stock \ ({invSlots[i] : i \in 0 .. Hot - 1} \ {Empty})

\* Items that are in no slot yet.
NewItems == stock \ Present

\* The ways in which new items go to the first empty slots: they come in the
\* order of a Go map, which is any.
Placings ==
    {place \in Injection(NewItems, EmptySlots) :
        \A item \in NewItems, i \in EmptySlots :
            i < place[item] => \E other \in NewItems : place[other] = i}

\* syncInvSlots: the new items are placed; then the slots of vanished items are
\* emptied.
SyncInvSlots ==
    /\ at = "drawn" /\ at' = "synced" /\ seen' = stock
    /\ \E place \in Placings :
         LET filled == [i \in SlotIds |->
                           IF \E item \in NewItems : place[item] = i
                             THEN CHOOSE item \in NewItems : place[item] = i
                             ELSE invSlots[i]]
         IN  invSlots' = [i \in SlotIds |-> IF filled[i] \in stock THEN filled[i] ELSE Empty]
    /\ UNCHANGED <<selectedSlot, lastSentHeld, stock, selects, heldItem, told>>

\* updateSlotWheel: one step either way, or none.
SlotWheel ==
    /\ at = "synced" /\ at' = "turned"
    /\ selectedSlot' \in {selectedSlot, (selectedSlot + 1) % Hot, (selectedSlot + Hot - 1) % Hot}
    /\ UNCHANGED <<invSlots, lastSentHeld, stock, seen, selects, heldItem, told>>

\* syncHeldItem: only a change is sent.
SyncHeldItem ==
    /\ at = "turned" /\ at' = "held"
    /\ IF Held = lastSentHeld
         THEN UNCHANGED <<lastSentHeld, selects, told>>
         ELSE /\ Len(selects) < SelectCap
              /\ lastSentHeld' = Held /\ selects' = Append(selects, Held) /\ told' = TRUE
    /\ UNCHANGED <<invSlots, selectedSlot, stock, seen, heldItem>>

\* drawInventory: an open window has consumed the frame before the wheel; an
\* item is dropped on a slot, and the two slots change places.
DropItem ==
    /\ at = "synced" /\ at' = "drawn"
    /\ \E i, j \in SlotIds :
         /\ i # j
         /\ invSlots' = [invSlots EXCEPT ![i] = invSlots[j], ![j] = invSlots[i]]
    /\ UNCHANGED <<selectedSlot, lastSentHeld, stock, seen, selects, heldItem, told>>

\* A frame that ends with the slots as they are.
DrawHotbar ==
    /\ at \in {"synced", "held"} /\ at' = "drawn"
    /\ UNCHANGED <<invSlots, selectedSlot, lastSentHeld, stock, seen, selects, heldItem, told>>

\* handleSelectItemMsg of the server.
SelectItem ==
    /\ selects # <<>> /\ heldItem' = Head(selects) /\ selects' = Tail(selects)
    /\ UNCHANGED <<invSlots, selectedSlot, lastSentHeld, stock, seen, at, told>>

\* disconnect or death, and startConnect: the server knows a new player with an
\* empty hand; the client forgets nothing.
HotbarRejoins ==
    /\ at = "drawn" /\ selects' = <<>> /\ heldItem' = Empty /\ told' = FALSE
    /\ UNCHANGED <<invSlots, selectedSlot, lastSentHeld, stock, seen, at>>

HotbarNext ==
    \/ InventoryUpdate \/ SyncInvSlots \/ SlotWheel \/ SyncHeldItem
    \/ DropItem \/ DrawHotbar \/ SelectItem \/ HotbarRejoins

HotbarSpec == HotbarInit /\ [][HotbarNext]_hotbarVars

-----------------------------------------------------------------------------
(* Properties *)

\* Whatever is dragged about while the stock changes, no item is in two slots,
\* the slots that a frame works with show exactly the stock it has read, and the
\* hand that the server knows, once this session has told it, is the one that
\* the click of this frame uses.
SlotsMatch ==
    /\ \A i, j \in SlotIds : i # j /\ invSlots[i] # Empty => invSlots[i] # invSlots[j]
    /\ at \in {"synced", "turned", "held"} => Present = seen
    /\ at = "held" /\ told /\ selects = <<>> => heldItem = Held

=============================================================================
