-------------------------- MODULE CacheInvalidator --------------------------
(***************************************************************************)
(* What each operation of CacheInvalidator.ts deletes, and in which order: *)
(* a plan is a sequence of steps, each one awaited delete of a single key  *)
(* or one pattern.  keys are the keys Redis may hold.  An argument that    *)
(* may be left out is the empty string when it is.                         *)
(***************************************************************************)
EXTENDS CacheKeys

Key(k) == [pattern |-> FALSE, keys |-> {k}]

Pattern(matched) == [pattern |-> TRUE, keys |-> matched]

Given(argument, steps) == IF argument = "" THEN <<>> ELSE steps

invalidateUser(id, keys) ==
    LET u == userKey(id, "", "")
    IN  <<Key(u.byId), Key(u.profile), Key(u.roles), Key(u.permissions),
          Pattern(Under(<<"user", id>>, keys))>>

invalidateComplaint(id, keys) ==
    LET c == complaintKey(id)
    IN  <<Key(c.byId), Key(c.detail), Key(c.status), Key(c.history), Key(c.stats),
          Pattern(ComplaintListPattern(keys)), Pattern(DashboardPattern(keys))>>

invalidateUserComplaints(user, keys) ==
    <<Pattern(Under(<<"complaint", "user", user>>, keys))>>

invalidateDepartmentComplaints(dept, keys) ==
    <<Pattern(Under(<<"complaint", "dept", dept>>, keys))>>

invalidateComplaintAnalytics(period, keys) ==
    IF period = "" THEN <<Pattern(Under(<<"complaint", "analytics">>, keys))>>
    ELSE <<Key(complaintLists("", "", period, "").analytics)>>

invalidateAnnouncement(id, keys) ==
    LET a == announcementKey(id, "", "page:1:limit:10")
    IN  <<Key(a.byId), Key(a.list), Pattern(Under(<<"announcement">>, keys))>>

invalidateScheme(id, keys) ==
    <<Key(schemeKey(id, "", "").byId), Pattern(Under(<<"scheme">>, keys))>>

invalidateAssignment(id, complaint) ==
    LET a == assignmentKey(id, complaint, "", "")
    IN  <<Key(a.byId)>> \o Given(complaint, <<Key(a.byComplaint)>>)

\* The only one that deletes the pattern first.
invalidateEscalation(id, complaint, keys) ==
    LET e == escalationKey(id, complaint, "")
    IN  <<Pattern(Under(<<"escalation">>, keys)), Key(e.byId)>>
          \o Given(complaint, <<Key(e.byComplaint)>>)

invalidateFeedback(id, complaint) ==
    LET f == feedbackKey(id, complaint, "")
    IN  <<Key(f.byId)>> \o Given(complaint, <<Key(f.byComplaint)>>)

\* Of one user's summary, or of every dashboard.
invalidateDashboard(user, keys) ==
    IF user = "" THEN <<Pattern(DashboardPattern(keys))>>
    ELSE <<Key(dashboardKey(user, "").summary)>>

invalidateNotification(user) ==
    LET n == notificationKey("", user) IN <<Key(n.byUser), Key(n.unread)>>

invalidateSystem(keys) == <<Pattern(Under(<<"system">>, keys))>>

invalidateSession(token) == <<Key(sessionKey(token, "").byToken)>>

\* entities is a sequence of pairs of a type and an id; only these types are known, and each is
\* the first part of the key byId.
invalidateBulk(entities) ==
    LET known == SelectSeq(entities, LAMBDA e : e[1] \in {"user", "complaint", "announcement",
                                                          "scheme"})
    IN  [i \in DOMAIN known |-> Key(known[i])]

\* FLUSHDB, one command for all keys.
clearAll(keys) == <<[pattern |-> FALSE, keys |-> keys]>>

=============================================================================
