---------------------------- MODULE MCTransports ----------------------------
(* Instances for Transports: each transport with its clients, alone and with *)
(* a server that does not start.                                             *)
EXTENDS Transports

query == [op |-> "query", qr |-> FALSE, zeroCounts |-> TRUE, tlvs |-> <<>>]
junk == [query EXCEPT !.op = "junk"]
request(tlvs) == [query EXCEPT !.op = "dso", !.tlvs = tlvs]

From(k, ips) == [c \in DOMAIN ips |-> [kind |-> k, ip |-> ips[c]]]
base == [kinds |-> Kinds, fails |-> "none", workers |-> 1, dso |-> FALSE, clients |-> From("tcp", <<"a", "a", "b">>),
         msgs |-> {query}, viewers |-> {}, sends |-> <<1, 1, 1>>, talkers |-> {}, background |-> {}, ticks |-> 0, maxCount |-> 1,
         accounts |-> [u \in {"alice"} |-> account("admin", "p")], calls |-> <<<<>>, <<>>>>, cap |-> 0, persists |-> FALSE, starts |-> 1]

\* Datagrams of two addresses against a table with room for one.
Datagrams == [base EXCEPT !.kinds = {"udp"}, !.clients = From("udp", <<"a", "a", "b">>), !.ticks = 2]
\* Datagrams on both sides of the end of a window.
Counted == [base EXCEPT !.kinds = {"udp"}, !.clients = From("udp", <<"a", "a", "a", "a">>), !.msgs = {junk}, !.ticks = 2, !.maxCount = 2]
Malformed == [Datagrams EXCEPT !.clients = From("udp", <<"a", "b">>), !.msgs = {query, junk}, !.workers = 2, !.ticks = 0]
\* Three connections, two of them of one address, for one worker.
Streams == [base EXCEPT !.kinds = {"tcp"}]
\* One connection fills its pipeline; it may ask for what plain TCP may not have.
Pipelined == [Streams EXCEPT !.clients = From("tcp", <<"a">>), !.dso = TRUE, !.msgs = {query, junk, request(<<>>)}, !.sends = <<3>>]
Secure == [base EXCEPT !.kinds = {"tls"}, !.clients = From("tls", <<"a", "a", "b">>)]
\* Sessions on two connections and one place in the table.
Sessions == [Secure EXCEPT !.dso = TRUE, !.workers = 2, !.clients = From("tls", <<"a", "b">>),
                           !.msgs = {query, request(<<"keepalive">>)}, !.sends = <<2, 1>>]
\* One connection falls silent, with a session or about to have one.
Silent == [Sessions EXCEPT !.workers = 1, !.clients = From("tls", <<"a">>), !.sends = <<3>>, !.ticks = 2]
\* Each form of a DSO message.
Forms == [Silent EXCEPT !.sends = <<2>>, !.ticks = 1,
  !.msgs = {request(<<>>), request(<<"keepalive", "padding">>), request(<<"payload", "unknown">>), request(<<"unknown", "cut">>),
            request(<<"padding">>), request(<<"keepalive", "retry delay">>), request(<<"short keepalive">>), request(<<"payload", "cut">>),
            [request(<<>>) EXCEPT !.qr = TRUE], [request(<<>>) EXCEPT !.zeroCounts = FALSE], junk}]
NoDSO == [Forms EXCEPT !.dso = FALSE, !.msgs = {request(<<>>)}]
Quic == [base EXCEPT !.kinds = {"doq"}, !.clients = From("doq", <<"a", "a", "b">>), !.sends = <<1, 1, 0>>]
\* One client goes on sending, the other falls silent.
Transfers == [base EXCEPT !.kinds = {"xot"}, !.clients = From("xot", <<"a", "b">>), !.sends = <<1, 2>>, !.talkers = {1}]
Talking == [Secure EXCEPT !.clients = From("tls", <<"a">>), !.talkers = {1}]
\* Every component of the process is there to be stopped, a server among them.
Whole == [base EXCEPT !.kinds = {"udp"}, !.clients = <<>>, !.dso = TRUE, !.background = Background]
\* Viewers of the query stream come and go while a query is answered; one viewer
\* gets more events than its channel holds.
Viewing == [base EXCEPT !.kinds = {"doq"}, !.clients = From("doq", <<"a">>), !.workers = 1, !.viewers = {"v1", "v2"}]
Flooded == [Viewing EXCEPT !.kinds = {"tcp"}, !.clients = From("tcp", <<"a">>), !.sends = <<2>>, !.viewers = {"v1"}]

\* Requests about accounts: two logins of one account, one of which then looks in
\* with the other's token.
login(u) == [op |-> "login", ip |-> "a", name |-> u, password |-> "p"]
short(r) == [r EXCEPT !.password = "short"]
mistyped(u) == [login(u) EXCEPT !.password = "q"]
setUp(u, p) == [op |-> "bootstrap", name |-> u, password |-> p, old |-> "p"]
by(c, o) == [op |-> o, as |-> c]
on(c, o, u) == [op |-> o, as |-> c, name |-> u, password |-> "p", role |-> "operator"]
Accounts == [base EXCEPT !.kinds = {}, !.clients = <<>>, !.cap = 2, !.ticks = 2,
  !.calls = <<<<login("alice"), by(1, "get")>>, <<login("alice"), by(1, "get")>>>>]
\* Two administrators delete each other; one account is made.
Rivals == [Accounts EXCEPT !.accounts = [u \in {"alice", "bob"} |-> account("admin", "p")], !.ticks = 0, !.cap = 1,
  !.calls = <<<<login("alice"), on(1, "delete", "bob")>>, <<login("bob"), on(2, "create", "carol"), on(2, "delete", "alice")>>>>]
\* No accounts are configured: set-ups, one of them refused after the default
\* account has gone; passwords are mistyped.
Refused == [Accounts EXCEPT !.accounts = [u \in {} |-> account("admin", "p")], !.ticks = 0,
  !.calls = <<<<setUp("bell", "p"), setUp("alice", "p"), short(on(1, "create", "bob"))>>, <<setUp("carol", "short"), setUp("bob", "p"), by(2, "get")>>>>]
Fresh == [Accounts EXCEPT !.accounts = [u \in {} |-> account("admin", "p")], !.ticks = 0,
  !.calls = <<<<setUp("alice", "p"), on(1, "create", "bob"), login("bob")>>, <<setUp("alice", "q"), login("alice")>>>>]
Mistyped == [Accounts EXCEPT !.ticks = 1, !.calls = <<<<mistyped("alice"), mistyped("bob"), login("alice")>>, <<mistyped("alice")>>>>]
\* Sessions across restarts.
Restarted == [Accounts EXCEPT !.calls = <<<<login("alice"), by(1, "logout")>>, <<login("alice")>>>>, !.cap = 1, !.ticks = 1,
                              !.persists = TRUE, !.starts = 3]
Failing(k, j) == [base EXCEPT !.fails = k, !.clients = From(j, <<"a">>), !.msgs = {query, request(<<>>)}]

MCScenarios ==
  {Datagrams, Counted, Malformed, Streams, Pipelined, Secure, Sessions, Silent, Forms, NoDSO, Quic, Transfers, Talking, Whole, Viewing, Flooded,
   Accounts, Rivals, Fresh, Refused, Mistyped, Restarted,
   Failing("udp", "udp"), Failing("tcp", "udp"), Failing("tls", "tcp"), Failing("doq", "tls"), Failing("xot", "doq")}
=============================================================================
