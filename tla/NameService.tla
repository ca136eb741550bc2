---------------------------- MODULE NameService ----------------------------
(***************************************************************************)
(* What the name service promises its clients, without saying how a record *)
(* is found: a book of records by service and instance name, and a Resolve *)
(* that answers an entry of the service when there is one, any instance    *)
(* otherwise, and NotFound exactly when the service has neither.           *)
(* RegistryStore implements it.                                            *)
(***************************************************************************)
CONSTANTS Service, Key, Kind, Address

Record == [kind : Kind, address : Address]
NotFound == [found |-> FALSE]
Found(a) == [found |-> TRUE, address |-> a]

VARIABLES
  book,   \* the records, a function whose domain is the set of known keys
  reply   \* the answer to the last call

vars == <<book, reply>>

Of(s, kind) == {k \in DOMAIN book : k[1] = s /\ book[k].kind = kind}

Init == /\ book = [k \in {} |-> {}]
        /\ reply = NotFound

Upsert(k, r) ==
  /\ book' = [j \in DOMAIN book \cup {k} |-> IF j = k THEN r ELSE book[j]]
  /\ reply' = [ok |-> TRUE]

Remove(k) ==
  /\ book' = [j \in DOMAIN book \ {k} |-> book[j]]
  /\ reply' = [ok |-> k \in DOMAIN book]

\* Answers an address of one of the records of kind.
AnswerFrom(s, kind) ==
  \E k \in Of(s, kind) : reply' = Found(book[k].address)

Resolve(s) ==
  /\ \/ AnswerFrom(s, "entry")
     \/ Of(s, "entry") = {} /\ AnswerFrom(s, "instance")
     \/ Of(s, "entry") \cup Of(s, "instance") = {} /\ reply' = NotFound
  /\ UNCHANGED book

ListInstances(s) ==
  /\ reply' = [rows |-> {book[k] : k \in Of(s, "instance")}]
  /\ UNCHANGED book

ListAll ==
  /\ reply' = [rows |-> {book[k] : k \in DOMAIN book}]
  /\ UNCHANGED book

Next ==
  \/ \E k \in Key : Remove(k) \/ \E r \in Record : Upsert(k, r)
  \/ \E s \in Service : Resolve(s) \/ ListInstances(s)
  \/ ListAll

Spec == Init /\ [][Next]_vars
=============================================================================
