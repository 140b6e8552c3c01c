---------------------------------- MODULE Disk ----------------------------------
(* What the buffer cache promises to the file system: a disk whose sectors    *)
(* are read and written one call at a time, that may save what was written at *)
(* any moment after the write, has saved all of it when a close returns, and  *)
(* that loses no more than what it had not saved when the machine stops.      *)

CONSTANTS
    Thread,
    Sector,
    Value,          \* what a sector can hold
    NoCall, NoValue

VARIABLES
    content,        \* content[s]: what a read of s gives
    durable,        \* durable[s]: what survives
    call,           \* call[t]: the call thread t is in
    result          \* result[t]: what its last read gave
vars == <<content, durable, call, result>>

Call == [op : {"read", "close"}, sector : Sector, value : {NoValue}]
        \cup [op : {"write"}, sector : Sector, value : Value]

Init ==
    /\ content \in [Sector -> Value]
    /\ durable = content
    /\ call = [t \in Thread |-> NoCall]
    /\ result = [t \in Thread |-> NoValue]

Invoke(t, c) ==
    /\ call[t] = NoCall
    /\ call' = [call EXCEPT ![t] = c]
    /\ result' = [result EXCEPT ![t] = NoValue]
    /\ UNCHANGED <<content, durable>>

Return(t) == call' = [call EXCEPT ![t] = NoCall]

Read(t) ==
    /\ call[t] # NoCall /\ call[t].op = "read"
    /\ result' = [result EXCEPT ![t] = content[call[t].sector]]
    /\ Return(t)
    /\ UNCHANGED <<content, durable>>

Write(t) ==
    /\ call[t] # NoCall /\ call[t].op = "write"
    /\ content' = [content EXCEPT ![call[t].sector] = call[t].value]
    /\ Return(t)
    /\ UNCHANGED <<durable, result>>

Close(t) ==
    /\ call[t] # NoCall /\ call[t].op = "close"
    /\ durable = content
    /\ Return(t)
    /\ UNCHANGED <<content, durable, result>>

Save(s) ==
    /\ durable' = [durable EXCEPT ![s] = content[s]]
    /\ UNCHANGED <<content, call, result>>

Stop ==
    /\ content' = durable
    /\ call' = [t \in Thread |-> NoCall]
    /\ result' = [t \in Thread |-> NoValue]
    /\ UNCHANGED durable

Next ==
    \/ \E t \in Thread : (\E c \in Call : Invoke(t, c)) \/ Read(t) \/ Write(t) \/ Close(t)
    \/ \E s \in Sector : Save(s)
    \/ Stop

Spec == Init /\ [][Next]_vars

=============================================================================
