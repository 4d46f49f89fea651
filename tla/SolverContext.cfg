CONSTANTS
    Threads = {s1, s2}
    linux = linux
    osx = osx
    cpu = cpu
    gpu = gpu
    glibc = glibc
    cuda = cuda
    host = host
    Platforms = {linux, osx}
    Targets = {cpu, gpu}
    SubdirOf <- MCSubdirOf
    Variables = {glibc, cuda}
    VariablesOf <- MCVariablesOf
    Ambient <- MCAmbient
    NativeSubdir = linux
    NoThread = NoThread
    None = None
SPECIFICATION Spec
SYMMETRY ContextSymmetry
INVARIANTS
    TypeOK
    ReadsAreItsOwn
    ContextIsRestored
