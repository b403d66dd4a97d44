SPECIFICATION Spec
CONSTANTS
    t1 = t1  t2 = t2  t3 = t3  t4 = t4
    a1 = a1  a2 = a2  a3 = a3  p1 = p1  p2 = p2  s1 = s1  s2 = s2
    Tasks = {t1, t2, t3, t4}
    Admissions = {a1, a2}
    Policies = {p1, p2}
    Samples = {s1}
    AdmissionOf <- BlocksAdmissionOf
    PolicyOf <- BlocksPolicyOf
    SampleOf <- BlocksSampleOf
    BlockSize = 2
    PauseCount = 2
    MaxAttempts = 2
    MaxNow = 5
    MaxReports = 2
SYMMETRY BlocksSymmetry
CHECK_DEADLOCK FALSE
PROPERTIES PauseLetsWorkEnd
