----------------------------- MODULE CacheKeys -----------------------------
(***************************************************************************)
(* The keys of CacheKeyBuilder.ts and the patterns that invalidation gives *)
(* to Redis.  A key is the sequence of its parts between colons, without   *)
(* the common prefix v1:cache; ids, pages and texts (a search, an address, *)
(* a period) are strings, a long text the eight digits of its hash.  A     *)
(* pattern is the set of those of the given keys that it matches.          *)
(***************************************************************************)
EXTENDS Naturals, Sequences, SequencesExt

userKey(id, text, page) ==
    [byId |-> <<"user", id>>, byEmail |-> <<"user", "email", text>>,
     byPhone |-> <<"user", "phone", text>>, profile |-> <<"user", "profile", id>>,
     roles |-> <<"user", "roles", id>>, permissions |-> <<"user", "permissions", id>>,
     list |-> <<"user", "list", page>>, search |-> <<"user", "search", text>>]

complaintKey(id) ==
    [byId |-> <<"complaint", id>>, detail |-> <<"complaint", "detail", id>>,
     status |-> <<"complaint", "status", id>>, history |-> <<"complaint", "history", id>>,
     stats |-> <<"complaint", "stats", id>>]

\* The lists and figures a complaint appears in.
complaintLists(user, dept, text, page) ==
    [list |-> <<"complaint", "list", page>>,
     listByUser |-> <<"complaint", "user", user, page>>,
     listByStatus |-> <<"complaint", "status", "list", text, page>>,
     listByDepartment |-> <<"complaint", "dept", dept, page>>,
     search |-> <<"complaint", "search", text, page>>,
     analytics |-> <<"complaint", "analytics", text>>]

dashboardKey(user, text) ==
    [summary |-> <<"dashboard", "summary", user>>, stats |-> <<"dashboard", "stats", text>>,
     overview |-> <<"dashboard", "overview">>, metrics |-> <<"dashboard", "metrics", text>>]

announcementKey(id, dept, page) ==
    [byId |-> <<"announcement", id>>, list |-> <<"announcement", "list", page>>,
     listByDepartment |-> <<"announcement", "dept", dept>>,
     active |-> <<"announcement", "active">>]

schemeKey(id, text, page) ==
    [byId |-> <<"scheme", id>>, list |-> <<"scheme", "list", page>>,
     listByCategory |-> <<"scheme", "category", text, page>>,
     search |-> <<"scheme", "search", text>>]

assignmentKey(id, complaint, officer, page) ==
    [byId |-> <<"assignment", id>>, byComplaint |-> <<"assignment", "complaint", complaint>>,
     byOfficer |-> <<"assignment", "officer", officer>>,
     list |-> <<"assignment", "list", page>>]

escalationKey(id, complaint, page) ==
    [byId |-> <<"escalation", id>>, byComplaint |-> <<"escalation", "complaint", complaint>>,
     list |-> <<"escalation", "list", page>>, pending |-> <<"escalation", "pending">>]

notificationKey(id, user) ==
    [byId |-> <<"notification", id>>, byUser |-> <<"notification", "user", user>>,
     unread |-> <<"notification", "unread", user>>]

feedbackKey(id, complaint, page) ==
    [byId |-> <<"feedback", id>>, byComplaint |-> <<"feedback", "complaint", complaint>>,
     list |-> <<"feedback", "list", page>>]

systemKey(text) ==
    [config |-> <<"system", "config", text>>, settings |-> <<"system", "settings">>,
     departments |-> <<"system", "departments">>, roles |-> <<"system", "roles">>,
     permissions |-> <<"system", "permissions">>]

sessionKey(text, user) ==
    [byToken |-> <<"session", "token", text>>, byUserId |-> <<"session", "user", user>>,
     otp |-> <<"otp", text>>]

reportKey(id, text, page) ==
    [byId |-> <<"report", id>>, list |-> <<"report", "list", page>>,
     summary |-> <<"report", "summary", text>>]

\* generateQueryKey.
queryKey(entity, text) == <<"query", entity, text>>

-----------------------------------------------------------------------------

\* The pattern "p:*".
Under(p, keys) == {k \in keys : IsStrictPrefix(p, k)}

\* The pattern "complaint*:list:*".
ComplaintListPattern(keys) ==
    {k \in keys : Head(k) = "complaint" /\ \E i \in 2..(Len(k) - 1) : k[i] = "list"}

\* pattern.dashboard(), "dashboard*".
DashboardPattern(keys) == {k \in keys : Head(k) = "dashboard"}

=============================================================================
