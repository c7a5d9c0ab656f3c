----------------------------- MODULE MCClients -----------------------------
(* A call of each client, with payloads of up to three parts. *)
EXTENDS Clients

MCText == {".", "x", "/", "7", "?", "TAB", "find", "cats", "e1", "e2", "a", "b", "c"}
MCRemote == <<1, 2>>
MCBody == <<3, 4>>
SomeLines == {<<>>, <<"x">>, <<".">>, <<".", "x">>}
MCMessages == {<<>>} \cup {<<l>> : l \in SomeLines} \cup {<<l, k>> : l, k \in SomeLines}
MCListings == {<<>>, <<<<"x">>, <<"x">>>>}
MCTexts == {<<>>} \cup {<<l>> : l \in SomeLines} \cup {<<l, <<"x">>>> : l \in SomeLines}
MCDefinitions == {<<b>> : b \in MCTexts} \cup {<<b, <<<<"x">>>>>> : b \in MCTexts}
MCPosts == {"m1", "m2"}
MCResults == {<<>>, <<"e1">>, <<"e1", "e2">>}
MCClearCaps == {{}, {"STARTTLS", "LOGINDISABLED"}, {"LOGINDISABLED"}, {"STARTTLS", "AUTH=LOGIN"}}
MCTlsCaps == {{}, {"AUTH=PLAIN"}, {"AUTH=LOGIN"}, {"LOGINDISABLED"}}
MCMails == {<<>>, <<"mail">>}
MCContents == {<<"a">>, <<"a", "b">>, <<"a", "b", "c">>}
MCSelectors == {<<>>, <<"find">>}
MCWords == {<<>>, <<"?">>, <<"?", "cats">>, <<"?", "cats", "?">>}
=============================================================================
