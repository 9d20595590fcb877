----------------------------- MODULE MCKeywordRun -----------------------------
(* KeywordRun on three sources. *)
EXTENDS KeywordRun

\* A search in public posts (11) that finds 1 and the channel 9, which is linked to 2; an
\* operator's ref (12) to 3; and the directory (13, 14) to fall back on.
Asked    == <<11, 12>>
Fallback == <<13, 14>>
OfKind   == 11 :> "public_posts" @@ 12 :> "operator_seed" @@ 13 :> "directory" @@ 14 :> "directory"
Leads    == 11 :> {1, 9} @@ 12 :> {3} @@ 13 :> {1} @@ 14 :> {2} @@ 9 :> {2}

\* 1 is read to the end of its window, 2 to its beginning, 3 may prove good enough.
Messages == 1 :> <<"chat", "ask", "chat", "old">> @@ 2 :> <<"chat">>
            @@ 3 :> <<"chat", "ask", "chat", "ask">>
Promise  == 1 :> 1 @@ 2 :> 1 @@ 3 :> 0

\* 1 was heard of last, 2 has the title for the directory.
Ranks    == "all" :> (1 :> 1 @@ 2 :> 0 @@ 3 :> 0)
            @@ "LINKED_DISCUSSION" :> (1 :> 0 @@ 2 :> 0 @@ 3 :> 0)
            @@ "DIRECTORY" :> (1 :> 0 @@ 2 :> 1 @@ 3 :> 0)
Places1  == "LINKED_DISCUSSION" :> 1 @@ "DIRECTORY" :> 1
===============================================================================
