-------------------------------- MODULE Ldap --------------------------------
(***************************************************************************)
(* ldap::fetch of src/ldap.rs against a directory: bind, one search, unbind. *)
(* Messages carry the id of the request that they answer.                  *)
(***************************************************************************)
EXTENDS Dialogue

CONSTANT Listings   \* what a search may find: sequences of entries

Init ==
    /\ \E valid, filterOk \in BOOLEAN :   \* no control bytes; the filter parses
        local = [valid |-> valid, filterOk |-> filterOk, got |-> <<>>]
    /\ \E entries \in Listings :
        server = [alive |-> TRUE, refused |-> FALSE, bound |-> FALSE, entries |-> entries,
                  left |-> entries, searching |-> 0, referred |-> FALSE]
    /\ pc = "start" /\ result = "none" /\ sent = 0 /\ inStep = TRUE
    /\ toServer = <<>> /\ toClient = <<>> /\ data = NoData

----------------------------------------------------------------------------
(* The client.                                                             *)

\* parse_ldap_path and reject_ctl; parse_filter; parse_search_entry and write_ldif_entry.
ValidQuery(l) == l.valid
FilterParses(l) == l.filterOk
LdifOf(r) == r.dn

Begin ==
    /\ pc = "start"
    /\ IF ValidQuery(local) THEN Ask("BIND", "", "bind") ELSE Return("error")
    /\ UNCHANGED <<local, toClient, server, data, inStep>>

\* The filter is parsed when the search is built, after the bind.
Bound(r) ==
    /\ pc = "bind"
    /\ IF r.op = "bind" /\ r.code = 0 THEN Take(r) ELSE Skip(r)
    /\ IF r.op # "bind" \/ r.code # 0 \/ ~FilterParses(local) THEN Return("error") ELSE Ask("SEARCH", "", "search")
    /\ UNCHANGED local

\* A message of another id is passed over.
OfSearch(r) == r.mid = sent

Unbind ==
    /\ pc' = "done" /\ result' = "ok" /\ sent' = sent + 1
    /\ toServer' = Append(toServer, [verb |-> "UNBIND", arg |-> "", n |-> sent + 1])

Stay == UNCHANGED <<pc, result, sent, toServer>>

Searched(r) ==
    /\ pc = "search"
    /\ \/ ~OfSearch(r) /\ Skip(r) /\ Stay /\ UNCHANGED local
       \/ OfSearch(r) /\ r.op = "entry" /\ Take(r) /\ Stay /\ local' = [local EXCEPT !.got = Append(@, LdifOf(r))]
       \/ OfSearch(r) /\ r.op = "reference" /\ Take(r) /\ Stay /\ UNCHANGED local
       \/ OfSearch(r) /\ r.op = "done" /\ Take(r) /\ UNCHANGED local
            /\ IF r.code = 0 THEN Unbind ELSE Return("error")
       \/ /\ OfSearch(r) /\ r.op \notin {"entry", "reference", "done"}
          /\ Skip(r) /\ Return("error") /\ UNCHANGED local

Receive ==
    /\ toClient # <<>>
    /\ LET r == Head(toClient) IN Bound(r) \/ Searched(r)
    /\ UNCHANGED <<server, data>>

Client == Begin \/ Receive \/ Broken \/ (pc # "start" /\ Timeout)

----------------------------------------------------------------------------
(* The server.                                                             *)

\* A message of an id with what it says; `re` is the request it belongs to.
Coded(op, code, n) == [mid |-> n, op |-> op, code |-> code, re |-> n]
Plain(op, n) == [mid |-> n, op |-> op, re |-> n]
EntryOf(dn, n) == [mid |-> n, op |-> "entry", dn |-> dn, re |-> n]

To(s, replies) == [s |-> s, replies |-> replies]
Answers(s, c) ==
    CASE c.verb = "BIND" ->
            {To([s EXCEPT !.bound = TRUE], <<Coded("bind", 0, c.n)>>), To(s, <<Coded("bind", 49, c.n)>>)}
      [] c.verb = "SEARCH" /\ s.bound -> {To([s EXCEPT !.searching = c.n], <<>>)}
      [] c.verb = "UNBIND" -> {To([s EXCEPT !.alive = FALSE], <<>>)}
      [] OTHER -> {To(Refused(s), <<Coded("done", 1, c.n)>>)}

Serve ==
    /\ server.alive /\ server.searching = 0 /\ toServer # <<>>
    /\ LET c == Head(toServer)
       IN \E a \in Answers(server, c) : Answer(a.s, a.replies)
    /\ UNCHANGED data

\* The results of a search: an entry, a reference or an intermediate response, the end;
\* code 4 is a limit exceeded.
Result ==
    /\ server.alive /\ server.searching # 0
    /\ \/ /\ server.left # <<>>
          /\ server' = [server EXCEPT !.left = Tail(@)]
          /\ Send(<<EntryOf(Head(server.left), server.searching)>>)
       \/ /\ ~server.referred
          /\ server' = [server EXCEPT !.referred = TRUE]
          /\ \E op \in {"reference", "intermediate"} : Send(<<Plain(op, server.searching)>>)
       \/ /\ server' = [server EXCEPT !.searching = 0]
          /\ \E code \in {4} \cup (IF server.left = <<>> THEN {0, 32} ELSE {}) :
                Send(<<Coded("done", code, server.searching)>>)
    /\ UNCHANGED data

\* Notice of disconnection: an unsolicited message of id 0, then the end.
Notice ==
    /\ server.alive
    /\ server' = [server EXCEPT !.alive = FALSE]
    /\ Send(<<Coded("extended", 52, 0)>>)
    /\ UNCHANGED data

Die == Crash /\ UNCHANGED data

Server == Serve \/ Result

----------------------------------------------------------------------------
\* Ok is returned only with every entry that the search found, in order.
Whole == result = "ok" => local.got = server.entries
=============================================================================
