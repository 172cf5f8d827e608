---------------------------- MODULE ObjectStore ----------------------------
(***************************************************************************)
(* The store every command relies on: a map from keys to whole objects, on *)
(* which put, get and delete take effect at one moment between their call  *)
(* and their return, or, when they fail, not at all.  Backwyn.tla is       *)
(* written over this interface: its steps are these moments.               *)
(***************************************************************************)

CONSTANTS
    Procs,   \* processes
    Key,     \* keys
    Value,   \* objects
    None     \* no object under a key; no value yet

VARIABLES objects, request

NoRequest == [op |-> "none", key |-> None, val |-> None, done |-> FALSE]

Request == {NoRequest} \cup
    [op : {"put", "get", "delete"}, key : Key, val : Value \cup {None}, done : BOOLEAN]

ObjectStoreTypeOK ==
    /\ objects \in [Key -> Value \cup {None}]
    /\ request \in [Procs -> Request]

Init ==
    /\ objects = [k \in Key |-> None]
    /\ request = [p \in Procs |-> NoRequest]

Asks(p, r) == request' = [request EXCEPT ![p] = r]

Call(p) ==
    /\ request[p] = NoRequest
    /\ \E k \in Key :
          \/ \E v \in Value : Asks(p, [op |-> "put", key |-> k, val |-> v, done |-> FALSE])
          \/ \E op \in {"get", "delete"} :
                Asks(p, [op |-> op, key |-> k, val |-> None, done |-> FALSE])
    /\ UNCHANGED objects

Done(r, val) == [op |-> r.op, key |-> r.key, val |-> val, done |-> TRUE]
Pending(p, op) == request[p].op = op /\ ~request[p].done

Put(p) ==
    /\ Pending(p, "put")
    /\ objects' = [objects EXCEPT ![request[p].key] = request[p].val]
    /\ Asks(p, Done(request[p], request[p].val))

Delete(p) ==
    /\ Pending(p, "delete")
    /\ objects' = [objects EXCEPT ![request[p].key] = None]
    /\ Asks(p, Done(request[p], request[p].val))

Get(p) ==
    /\ Pending(p, "get")
    /\ objects[request[p].key] # None
    /\ Asks(p, Done(request[p], objects[request[p].key]))
    /\ UNCHANGED objects

\* The result is given, or the request fails or is abandoned: one that is not
\* done by then never will be.
Return(p) ==
    /\ Asks(p, NoRequest)
    /\ UNCHANGED objects

Next == \E p \in Procs : Call(p) \/ Put(p) \/ Delete(p) \/ Get(p) \/ Return(p)

Spec == Init /\ [][Next]_<<objects, request>>
=============================================================================
