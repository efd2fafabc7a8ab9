-------------------------- MODULE MCPurchaseOrders --------------------------
(***************************************************************************)
(* One order drafted by a graph run and one confirmed in the chat.  r1     *)
(* approves with a key; r2 retries it, uses its key for something else, or *)
(* edits; r3 comes from elsewhere: an edit, another key, or a link.        *)
(***************************************************************************)
EXTENDS PurchaseOrders, TLC

CONSTANTS graph_po, chat_po, run1, k1, k2, r1, r2, r3

MCThreadOf == [p \in POs |-> IF p = chat_po THEN None ELSE run1]
MCDrafted == [p \in POs |-> 1]

Call(op, p, qty, key, via) ==
    [op |-> op, po |-> p, qty |-> qty, key |-> key, via |-> via]

MCCallsOf ==
    r1 :> {Call("approve", graph_po, None, k1, "api")}
 @@ r2 :> {Call("approve", graph_po, None, k1, "api"),
           Call("approve", graph_po, 2, k1, "api"),
           Call("reject", chat_po, None, k1, "api")}
 @@ r3 :> {Call("approve", graph_po, 3, None, "api"),
           Call("approve", chat_po, 3, k2, "api"),
           Call("approve", chat_po, 3, None, "token"),
           Call("reject", graph_po, None, None, "token")}
=============================================================================
