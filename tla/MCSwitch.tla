------------------------------ MODULE MCSwitch ------------------------------
(* Small networks.  The ids repeat in different processes, as pipe ids do. *)
EXTENDS Switch, TLC

\* clients c1 and c2 - switch (f, b) - server v, which hands over to the pair (pa, pb)
\* that the answering application uses; the ends are named after both sockets
Chain(access, trunk, ttl, types, leaves, maxLength, asks) ==
    [sockets |-> {"c1", "c2", "f", "b", "v", "pa", "pb"},
     twin |-> [s \in {"c1", "c2", "f", "b", "v", "pa", "pb"} |->
                 CASE s = "f" -> "b" [] s = "b" -> "f" [] s = "v" -> "pa" [] s = "pa" -> "v" [] OTHER -> None],
     mate |-> [s \in {"c1", "c2", "f", "b", "v", "pa", "pb"} |->
                 CASE s = "pa" -> "pb" [] s = "pb" -> "pa" [] OTHER -> None],
     ends |-> {"c1f", "fc1", "c2f", "fc2", "bv", "vb"},
     sock |-> ("c1f" :> "c1" @@ "fc1" :> "f" @@ "c2f" :> "c2" @@ "fc2" :> "f" @@ "bv" :> "b" @@ "vb" :> "v"),
     peer |-> ("c1f" :> "fc1" @@ "fc1" :> "c1f" @@ "c2f" :> "fc2" @@ "fc2" :> "c2f" @@ "bv" :> "vb" @@ "vb" :> "bv"),
     id |-> ("c1f" :> "1" @@ "fc1" :> "1" @@ "c2f" :> "1" @@ "fc2" :> "2" @@ "bv" :> "3" @@ "vb" :> "1"),
     kind |-> ("c1f" :> access @@ "fc1" :> access @@ "c2f" :> access @@ "fc2" :> access @@ "bv" :> trunk @@ "vb" :> trunk),
     ttl |-> ttl, leaves |-> leaves, maxLength |-> maxLength,
     sends |-> [s \in {"c1", "c2", "f", "b", "v", "pa", "pb"} |->
                 CASE s = "c1" -> {SendTypeToOne} [] s = "c2" -> types [] OTHER -> {}],
     answers |-> {"pb"},
     asks |-> asks]

\* client c - switch (f, b), whose back is joined to the front of the switch (g, h)
\* and whose front is joined to the back of it: a ring
Ring(kind, ttl, types) ==
    [sockets |-> {"c1", "f", "b", "g", "h"},
     twin |-> ("c1" :> None @@ "f" :> "b" @@ "b" :> "f" @@ "g" :> "h" @@ "h" :> "g"),
     mate |-> [s \in {"c1", "f", "b", "g", "h"} |-> None],
     ends |-> {"cf", "fc", "bg", "gb", "hf", "fh"},
     sock |-> ("cf" :> "c1" @@ "fc" :> "f" @@ "bg" :> "b" @@ "gb" :> "g" @@ "hf" :> "h" @@ "fh" :> "f"),
     peer |-> ("cf" :> "fc" @@ "fc" :> "cf" @@ "bg" :> "gb" @@ "gb" :> "bg" @@ "hf" :> "fh" @@ "fh" :> "hf"),
     id |-> ("cf" :> "1" @@ "fc" :> "1" @@ "bg" :> "2" @@ "gb" :> "1" @@ "hf" :> "2" @@ "fh" :> "3"),
     kind |-> [e \in {"cf", "fc", "bg", "gb", "hf", "fh"} |-> kind],
     ttl |-> ttl, leaves |-> {}, maxLength |-> 0,
     sends |-> [s \in {"c1", "f", "b", "g", "h"} |-> IF s = "c1" THEN types ELSE {}],
     answers |-> {}, asks |-> {}]

\* a raw program at the end r of a server v; another one at the end q of a switch (x, y)
\* that leads to a server w
Raw(trunk) ==
    [sockets |-> {"v", "w", "x", "y"},
     twin |-> ("v" :> None @@ "w" :> None @@ "x" :> "y" @@ "y" :> "x"),
     mate |-> [s \in {"v", "w", "x", "y"} |-> None],
     ends |-> {"r", "q", "yw", "wy"},
     sock |-> ("r" :> "v" @@ "q" :> "x" @@ "yw" :> "y" @@ "wy" :> "w"),
     peer |-> ("r" :> None @@ "q" :> None @@ "yw" :> "wy" @@ "wy" :> "yw"),
     id |-> ("r" :> "1" @@ "q" :> "1" @@ "yw" :> "2" @@ "wy" :> "1"),
     kind |-> ("r" :> "raw" @@ "q" :> "raw" @@ "yw" :> trunk @@ "wy" :> trunk),
     ttl |-> 0, leaves |-> {}, maxLength |-> 0,
     sends |-> [s \in {"v", "w", "x", "y"} |-> {}],
     answers |-> {"v", "w"}, asks |-> {"r"}]

One == {SendTypeToOne}
Both == {SendTypeToOne, SendTypeToAll}
Clients == {"c1", "c2"}

\* every way to connect, TTLs that suffice, are just enough and are not enough, a
\* client that leaves, and answers that MaxRecvContentLength refuses
Networks ==
    {Chain("stream", "block", 0, Both, {}, 0, Clients), Chain("direct", "stream", 2, One, {}, 0, Clients),
     Chain("block", "stream", 1, Both, {}, 0, {}), Chain("stream", "block", 255, One, {"c1f"}, 0, {}),
     Chain("block", "stream", 2, One, {}, 1, {}), Chain("stream", "block", 2, One, {}, 1, {}),
     Ring("stream", 255, One), Ring("block", 4, Both), Raw("block"), Raw("direct")}

\* the connection between the switch and the server passes messages by reference
Shortcut == {Chain("stream", "direct", 0, One, {}, 0, Clients)}

\* the first client may leave, the second one stays
Leaving == {Chain("stream", "stream", 0, One, {"c1f"}, 0, {"c2"})}
=============================================================================
