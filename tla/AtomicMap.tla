----------------------------- MODULE AtomicMap -----------------------------
(***************************************************************************)
(* What the guarded containers promise: between its call and its return    *)
(* each operation acts once, at one instant, as std::map or std::set do    *)
(* when nobody else is there.  An element is the number of the object      *)
(* stored under its key; 0 stands for no element.                          *)
(***************************************************************************)
EXTENDS Naturals, FiniteSets

CONSTANTS Thread, Key, MaxObject

VARIABLES store,   \* the object under each key, or 0
          call,    \* the call each thread is in
          reply    \* how each thread's latest call ended

Object == 1 .. MaxObject

ReadOp == {"Find", "HasKey", "FindEx", "Begin", "End", "Size", "IsEmpty", "MaxSize"}
WriteOp == {"Pop", "PopFirst", "Erase", "Clear", "Insert", "OnlyInsert"}

Call == [op : ReadOp \cup WriteOp, key : Key \cup {0}, object : Object \cup {0}]
NoCall == [op |-> "none", key |-> 0, object |-> 0]

Return(element) == [how |-> "element", value |-> element]
Count(n) == [how |-> "count", value |-> n]
Throw(exception) == [how |-> exception, value |-> 0]
Reply == [how : {"element", "count", "ElementNotFoundInfo", "SetEmptyException"}, value : Nat]

Present(s) == {k \in Key : s[k] # 0}

\* The key of begin(), if there is one.
First(s) == {k \in Present(s) : \A j \in Present(s) : k <= j}

FirstElement(s) == IF First(s) = {} THEN 0 ELSE s[CHOOSE k \in First(s) : TRUE]

Remove(s, keys) == [k \in Key |-> IF k \in keys THEN 0 ELSE s[k]]

Add(s, k, x) == IF s[k] = 0 THEN [s EXCEPT ![k] = x] ELSE s

Effect(c, s) ==
    CASE c.op \in {"Pop", "Erase"}         -> Remove(s, {c.key})
      [] c.op = "PopFirst"                 -> Remove(s, First(s))
      [] c.op = "Clear"                    -> Remove(s, Key)
      [] c.op \in {"Insert", "OnlyInsert"} -> Add(s, c.key, c.object)
      [] OTHER                             -> s

Outcome(c, s) ==
    CASE c.op \in {"Find", "HasKey", "Erase"}  -> Return(s[c.key])
      [] c.op \in {"FindEx", "Pop"}            -> IF s[c.key] = 0 THEN Throw("ElementNotFoundInfo")
                                                  ELSE Return(s[c.key])
      [] c.op \in {"Insert", "OnlyInsert"}     -> Return(Add(s, c.key, c.object)[c.key])
      [] c.op = "PopFirst"                     -> IF Present(s) = {} THEN Throw("SetEmptyException")
                                                  ELSE Return(FirstElement(s))
      [] c.op = "Begin"                        -> Return(FirstElement(s))
      [] c.op \in {"Size", "IsEmpty"}          -> Count(Cardinality(Present(s)))
      [] OTHER                                 -> Count(0)

Init == /\ store = [k \in Key |-> 0]
        /\ call = [t \in Thread |-> NoCall]
        /\ reply = [t \in Thread |-> Count(0)]

Start(t) == /\ call[t] = NoCall
            /\ \E c \in Call : call' = [call EXCEPT ![t] = c]
            /\ reply' = [reply EXCEPT ![t] = Count(0)]
            /\ UNCHANGED store

Act(t) == /\ call[t] # NoCall
          /\ store' = Effect(call[t], store)
          /\ reply' = [reply EXCEPT ![t] = Outcome(call[t], store)]
          /\ call' = [call EXCEPT ![t] = NoCall]

Next == \E t \in Thread : Start(t) \/ Act(t)

Spec == Init /\ [][Next]_<<store, call, reply>>
=============================================================================
