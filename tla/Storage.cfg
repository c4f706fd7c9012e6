\* What is kept on disk and sent to providers.
CONSTANTS
  a1=a1 a2=a2 b1=b1 c1=c1 c2=c2 f1=f1 f2=f2 f3=f3 l1=l1 m1=m1 m2=m2 n1=n1
  p1=p1 p2=p2 r1=r1 r2=r2 s1=s1 s2=s2 t1=t1 w1=w1 w2=w2 w3=w3
  Parts = {"catalog", "wire", "schedules", "sessions", "lifetime", "files", "review",
           "worktrees", "todos", "shell", "hooks", "config", "plugins"}
  MaxWords=2 MaxPrompts=3 MaxSessions=2
SYMMETRY StorageSymmetry
SPECIFICATION PartsSpec
INVARIANTS RequestsAccepted KeptAsDone OnlyWhatWasAgreed
