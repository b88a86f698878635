-------------------------------- MODULE Lru --------------------------------
(***************************************************************************)
(* nano_hermes/lru.py: the recency rule every per-conversation dict        *)
(* shares.  A Python dict keeps insertion order, so the dict is the        *)
(* sequence of its keys, oldest first; the values are kept by its owner.   *)
(***************************************************************************)
EXTENDS Naturals, Sequences

Held(order, key) == \E i \in DOMAIN order : order[i] = key

\* d.pop(key, None): a key stands in a dict once.
Without(order, key) ==
    LET at == CHOOSE i \in DOMAIN order : order[i] = key
    IN  IF Held(order, key)
        THEN SubSeq(order, 1, at - 1) \o SubSeq(order, at + 1, Len(order))
        ELSE order

\* d[key] = d.pop(key), or d[key] = default() for a missing key when the
\* caller passes a default (`create`).
Moved(order, key, create) ==
    IF create \/ Held(order, key) THEN Append(Without(order, key), key) ELSE order

\* The keys `touch` pops and returns: the oldest ones past `cap`.
Evicted(order, key, create, cap) ==
    LET m == Moved(order, key, create)
    IN  {m[i] : i \in 1 .. (IF Len(m) > cap THEN Len(m) - cap ELSE 0)}

\* A plausible slip: the key is moved or created, nothing is evicted.
NeverEvicted(order, key, create, cap) == Moved(order, key, create)

\* The dict `touch` leaves behind.
Touched(order, key, create, cap) ==
    LET m == Moved(order, key, create)
    IN  IF Len(m) > cap THEN SubSeq(m, Len(m) - cap + 1, Len(m)) ELSE m
=============================================================================
