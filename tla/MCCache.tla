------------------------------ MODULE MCCache ------------------------------
(***************************************************************************)
(* CacheService with the plans of CacheInvalidator.  A kind of data is an  *)
(* operation with a key that CacheKeyBuilder makes for the data it is      *)
(* about: of all that the plans treat alike, one.                          *)
(***************************************************************************)
EXTENDS CacheService, CacheInvalidator

FieldsOf(r) == {r[f] : f \in DOMAIN r}

\* The keys of the data that each operation is about.
Cached ==
    LET user == FieldsOf(userKey("u", "t", "1"))
        lists == complaintLists("v", "d", "t", "1")
        dashboards == FieldsOf(dashboardKey("v", "t")) \cup FieldsOf(dashboardKey("w", "t"))
        assignment == FieldsOf(assignmentKey("x", "c", "o", "1"))
        escalation == FieldsOf(escalationKey("e", "c", "1"))
        feedback == FieldsOf(feedbackKey("f", "c", "1"))
    IN  [user |-> user,
         complaint |-> FieldsOf(complaintKey("c")) \cup FieldsOf(lists) \cup dashboards,
         userComplaints |-> {lists.listByUser},
         departmentComplaints |-> {lists.listByDepartment},
         analytics |-> {lists.analytics},
         analyticsOfPeriod |-> {lists.analytics, complaintLists("v", "d", "s", "1").analytics},
         announcement |-> FieldsOf(announcementKey("a", "d", "1")),
         scheme |-> FieldsOf(schemeKey("s", "t", "1")),
         assignment |-> assignment,
         assignmentAlone |-> assignment,
         escalation |-> escalation,
         escalationAlone |-> escalation,
         feedback |-> feedback,
         feedbackAlone |-> feedback,
         dashboard |-> dashboards,
         dashboardOfUser |-> dashboards,
         notification |-> FieldsOf(notificationKey("n", "v")),
         system |-> FieldsOf(systemKey("t")),
         session |-> FieldsOf(sessionKey("t", "v")),
         bulk |-> user,
         everything |-> FieldsOf(reportKey("r", "t", "1")) \cup {queryKey("complaint", "t")}]

Operations == DOMAIN Cached

RedisKeys == LET keys == UNION FieldsOf(Cached) IN keys \cup {LockOf(k) : k \in keys}

FullPlan(d, keys) ==
    CASE d = "user" -> invalidateUser("u", keys)
      [] d = "complaint" -> invalidateComplaint("c", keys)
      [] d = "userComplaints" -> invalidateUserComplaints("v", keys)
      [] d = "departmentComplaints" -> invalidateDepartmentComplaints("d", keys)
      [] d = "analytics" -> invalidateComplaintAnalytics("", keys)
      [] d = "analyticsOfPeriod" -> invalidateComplaintAnalytics("t", keys)
      [] d = "announcement" -> invalidateAnnouncement("a", keys)
      [] d = "scheme" -> invalidateScheme("s", keys)
      [] d = "assignment" -> invalidateAssignment("x", "c")
      [] d = "assignmentAlone" -> invalidateAssignment("x", "")
      [] d = "escalation" -> invalidateEscalation("e", "c", keys)
      [] d = "escalationAlone" -> invalidateEscalation("e", "", keys)
      [] d = "feedback" -> invalidateFeedback("f", "c")
      [] d = "feedbackAlone" -> invalidateFeedback("f", "")
      [] d = "dashboard" -> invalidateDashboard("", keys)
      [] d = "dashboardOfUser" -> invalidateDashboard("v", keys)
      [] d = "notification" -> invalidateNotification("v")
      [] d = "system" -> invalidateSystem(keys)
      [] d = "session" -> invalidateSession("t")
      [] d = "bulk" -> invalidateBulk(<<<<"assignment", "x">>, <<"user", "u">>>>)
      [] d = "everything" -> clearAll(keys)

\* The steps of a plan that concern one of the keys or its lock; the others find nothing.
Concerning(plan, keys) ==
    SelectSeq(plan, LAMBDA s : s.keys \cap (keys \cup {LockOf(k) : k \in keys}) # {})

\* How a plan treats a key: which of its steps delete it, or its lock.
Treatment(plan, k) ==
    [i \in DOMAIN plan |-> [pattern |-> plan[i].pattern, key |-> k \in plan[i].keys,
                            lock |-> LockOf(k) \in plan[i].keys]]

Case(d, keys) == [operation |-> d, keys |-> keys,
                  plan |-> Concerning(FullPlan(d, RedisKeys), keys)]

Cases == UNION {{Case(d, {k}) : k \in Cached[d]} : d \in Operations}

TreatmentOf(c) == Treatment(c.plan, CHOOSE k \in c.keys : TRUE)

OneOfEach ==
    LET treatments == {TreatmentOf(c) : c \in Cases}
    IN  {CHOOSE c \in Cases : TreatmentOf(c) = t : t \in treatments}

\* And two keys at once, of two steps of one plan.
TwoKeys == {complaintKey("c").detail, complaintLists("v", "d", "t", "1").listByStatus}

AllKinds == {Case("complaint", TwoKeys)} \cup OneOfEach

AllViews == [d \in AllKinds |-> d.keys]

AllPlans == [d \in AllKinds |-> d.plan]

=============================================================================
