--------------------------- MODULE JobQueue_proofs ---------------------------
(***************************************************************************)
(* Safety of the job queue for any number of jobs and consumers and any    *)
(* values of the timers: type correctness, the ownership of a lock by its  *)
(* executor until a consumer loses the database, the attempt number as a   *)
(* fencing token in every behaviour, and the refinement of JobPromesa.     *)
(* And of enqueue(), for any number of callers: the bounds on duplicates   *)
(* and on the quota, and whose job each of them is given.                  *)
(***************************************************************************)
EXTENDS JobQueue, JobEncolado, FiniteSetTheorems, WellFoundedInduction, TLAPS

-----------------------------------------------------------------------------
(* What the statements write is a row.                                     *)

LEMMA TomadaType ==
    ASSUME NEW f \in Fila, NEW w \in Consumidores
    PROVE  Tomada(f, w) \in Fila
  <1>1. ASSUME NEW n \in Nat
        PROVE  [f EXCEPT !.estado = "running", !.intentos = n,
                         !.locked_by = w, !.silencio = 0] \in Fila
    BY DEF Fila, Estados, Activos, Terminales
  <1>2. f.intentos + 1 \in Nat
    BY DEF Fila
  <1> QED
    BY <1>1, <1>2 DEF Tomada

LEMMA SueltaType ==
    ASSUME NEW f \in Fila, NEW e \in Estados, NEW x \in Int
    PROVE  Suelta(f, e, x) \in Fila
  BY DEF Suelta, Fila

LEMMA EnvejecidaType ==
    ASSUME NEW f \in Fila
    PROVE  Envejecida(f) \in Fila
  <1>1. ASSUME NEW x \in Int, NEW s \in Nat
        PROVE  [f EXCEPT !.espera = x, !.silencio = s] \in Fila
    BY DEF Fila
  <1>2. f.espera \in Int /\ f.silencio \in Nat
    BY DEF Fila
  <1>3. (IF f.estado \in Activos /\ f.espera > -Horizonte
           THEN f.espera - 1 ELSE f.espera) \in Int
    BY <1>2
  <1>4. (IF f.estado = "running" /\ f.silencio <= TTL
           THEN f.silencio + 1 ELSE f.silencio) \in Nat
    BY <1>2
  <1> QED
    BY <1>1, <1>3, <1>4 DEF Envejecida

-----------------------------------------------------------------------------
(* Every statement of the repository keeps the table well typed.           *)

LEMMA InitType == TablaInit => TablaTypeOK
  BY TablaAssumption DEF TablaInit, TablaTypeOK, SinFila, Fila, Estados

LEMMA InsertarType ==
    ASSUME TablaTypeOK, NEW j \in Ids, NEW t \in Tipos, Insertar(j, t)
    PROVE  TablaTypeOK'
  BY DEF TablaTypeOK, Insertar, Fila, Estados, Activos, Terminales

LEMMA ReclamarType ==
    ASSUME TablaTypeOK, NEW w \in Consumidores, NEW j \in Ids,
           Reclamar(w, TiposADemanda, j)
    PROVE  TablaTypeOK'
  BY TomadaType DEF TablaTypeOK, Reclamar

LEMMA RenovarLockType ==
    ASSUME TablaTypeOK, NEW w \in Consumidores, NEW j \in Ids, RenovarLock(j, w)
    PROVE  TablaTypeOK'
  BY DEF TablaTypeOK, RenovarLock, Fila

LEMMA CerrarType ==
    ASSUME TablaTypeOK, NEW j \in Ids, NEW e \in Estados, NEW x \in Int, Cerrar(j, e, x)
    PROVE  TablaTypeOK'
  BY SueltaType DEF TablaTypeOK, Cerrar

LEMMA ReclamarCaducadosType ==
    ASSUME TablaTypeOK, ReclamarCaducados
    PROVE  TablaTypeOK'
  <1>1. ASSUME NEW j \in Ids
        PROVE  /\ jobs[j] \in Fila
               /\ Suelta(jobs[j], "failed", 0) \in Fila
               /\ Suelta(jobs[j], "pending", jobs[j].espera) \in Fila
    <2>1. jobs[j] \in Fila
      BY DEF TablaTypeOK
    <2>2. jobs[j].espera \in Int
      BY <2>1 DEF Fila
    <2>3. "failed" \in Estados /\ "pending" \in Estados
      BY DEF Estados, Activos, Terminales
    <2> QED
      BY <2>1, <2>2, <2>3, SueltaType
  <1> QED
    BY <1>1 DEF TablaTypeOK, ReclamarCaducados, Barrida

LEMMA PasaElTiempoType ==
    ASSUME TablaTypeOK, PasaElTiempo
    PROVE  TablaTypeOK'
  BY EnvejecidaType DEF TablaTypeOK, PasaElTiempo

-----------------------------------------------------------------------------
(* Type correctness.  An executor holds the id of a job and an attempt     *)
(* that was counted, which is what its closing statements are called with. *)

TareaOK ==
    \A w \in Consumidores : Ocupado(w) => tarea[w].job \in Ids /\ tarea[w].intentos # 0

Base == TypeOK /\ TareaOK

LEMMA LibreType == Libre \in Tarea
  BY DEF Libre, Tarea, Fases

LEMMA BackoffType ==
    ASSUME NEW n \in Nat, n # 0, n <= MaxIntentos
    PROVE  Backoff(n) \in Int
  <1>1. n - 1 \in 0 .. MaxIntentos
    BY TablaAssumption
  <1> QED
    BY <1>1, BackoffAssumption DEF Backoff

LEMMA BaseInit == Init => Base
  BY InitType, LibreType DEF Init, Base, TypeOK, TareaOK, Ocupado, Libre

LEMMA BasePaso ==
    ASSUME Base, NEW w \in Consumidores, Paso(w)
    PROVE  Base'
  <1> USE DEF Base, TypeOK, TareaOK, Ocupado
  <1>1. CASE Tomar(w)
    <2>1. PICK j \in Ids :
            /\ Reclamar(w, TiposADemanda, j)
            /\ tarea' = [tarea EXCEPT ![w] =
                           [fase |-> "handler", job |-> j,
                            intentos |-> jobs[j].intentos + 1, late |-> TRUE]]
      BY <1>1 DEF Tomar
    <2> DEFINE t == [fase |-> "handler", job |-> j,
                     intentos |-> jobs[j].intentos + 1, late |-> TRUE]
    <2>2. jobs[j].intentos \in Nat
      BY DEF TablaTypeOK, Fila
    <2>3. t \in Tarea /\ t.job \in Ids /\ t.intentos # 0
      BY <2>2 DEF Tarea, Fases
    <2>4. TablaTypeOK'
      BY <2>1, ReclamarType
    <2>5. tarea' = [tarea EXCEPT ![w] = t]
      BY <2>1
    <2> HIDE DEF t
    <2> QED
      BY <1>1, <2>3, <2>4, <2>5 DEF Tomar
  <1>2. CASE Latir(w)
    <2>1. TablaTypeOK'
      BY <1>2, RenovarLockType DEF Latir
    <2>2. LockEs(tarea[w].job, w) \in BOOLEAN
      BY DEF LockEs
    <2> QED
      BY <1>2, <2>1, <2>2 DEF Latir, Tarea
  <1>3. ASSUME NEW r \in {"ok", "error"}, HandlerTermina(w, r)
        PROVE  Base'
    BY <1>3 DEF HandlerTermina, Tarea, Fases, TablaTypeOK
  <1>4. CASE Ack(w)
    <2>1. TablaTypeOK'
      BY <1>4, CerrarType DEF Ack, MarcarTerminado, Estados, Terminales
    <2> QED
      BY <1>4, <2>1, LibreType DEF Ack, Libre
  <1>5. CASE Fail(w)
    <2>1. tarea[w].job \in Ids /\ tarea[w].intentos \in Nat /\ tarea[w].intentos # 0
      BY <1>5 DEF Fail, Tarea
    <2>2. CASE tarea[w].intentos >= MaxIntentos
      <3>1. TablaTypeOK'
        BY <1>5, <2>1, <2>2, CerrarType DEF Fail, MarcarFallido, Estados, Terminales
      <3> QED
        BY <1>5, <3>1, LibreType DEF Fail, Libre
    <2>3. CASE ~(tarea[w].intentos >= MaxIntentos)
      <3>1. Backoff(tarea[w].intentos) \in Int
        BY <2>1, <2>3, BackoffType, TablaAssumption
      <3>2. TablaTypeOK'
        BY <1>5, <2>1, <2>3, <3>1, CerrarType DEF Fail, Reprogramar, Estados, Activos
      <3> QED
        BY <1>5, <3>2, LibreType DEF Fail, Libre
    <2> QED
      BY <2>2, <2>3
  <1>6. CASE CierrePerdido(w)
    BY <1>6, LibreType DEF CierrePerdido, Libre, TablaTypeOK
  <1>7. CASE Barrer(w)
    <2>1. TablaTypeOK'
      BY <1>7, ReclamarCaducadosType DEF Barrer
    <2> QED
      BY <1>7, <2>1 DEF Barrer
  <1>8. CASE Salir(w)
    BY <1>8 DEF Salir, TablaTypeOK
  <1> QED
    BY <1>1, <1>2, <1>3, <1>4, <1>5, <1>6, <1>7, <1>8 DEF Paso

LEMMA BaseEntorno ==
    ASSUME Base, NEW w \in Consumidores, Entorno(w)
    PROVE  Base'
  <1> USE DEF Base, TypeOK, TareaOK, Ocupado, TablaTypeOK
  <1>1. CASE Detener(w)
    BY <1>1 DEF Detener
  <1>2. CASE Caer(w)
    BY <1>2, LibreType DEF Caer, Libre
  <1>3. CASE Arrancar(w)
    BY <1>3 DEF Arrancar
  <1>4. CASE Aislar(w)
    BY <1>4 DEF Aislar
  <1>5. CASE Reconectar(w)
    BY <1>5 DEF Reconectar
  <1> QED
    BY <1>1, <1>2, <1>3, <1>4, <1>5 DEF Entorno

LEMMA BaseStep == Base /\ [Next]_vars => Base'
  <1> SUFFICES ASSUME Base, [Next]_vars PROVE Base'
    OBVIOUS
  <1>1. CASE Encolar
    <2>1. TablaTypeOK'
      BY <1>1, InsertarType DEF Encolar, Base, TypeOK
    <2> QED
      BY <1>1, <2>1 DEF Encolar, Base, TypeOK, TareaOK, Ocupado
  <1>2. CASE Tick
    <2>1. TablaTypeOK'
      BY <1>2, PasaElTiempoType DEF Tick, Base, TypeOK
    <2> QED
      BY <1>2, <2>1 DEF Tick, Base, TypeOK, TareaOK, Ocupado
  <1>3. CASE UNCHANGED vars
    BY <1>3 DEF vars, Base, TypeOK, TablaTypeOK, TareaOK, Ocupado
  <1> QED
    BY <1>1, <1>2, <1>3, BasePaso, BaseEntorno DEF Next

(* The state always has its type: the counters are never negative and every *)
(* row has one of the four states the table's CHECK allows.                *)
THEOREM TypeCorrect == Spec => []TypeOK
  <1>1. Spec => []Base
    BY BaseInit, BaseStep, PTL DEF Spec
  <1>2. Base => TypeOK
    BY DEF Base
  <1> QED
    BY <1>1, <1>2, PTL

-----------------------------------------------------------------------------
(* The lock belongs to its executor.  The invariant is not inductive by    *)
(* itself: a sweep takes only locks silent for longer than TTL, so the     *)
(* strengthening bounds the silence of every executor's lock; time keeps   *)
(* that bound because no consumer is isolated while cortes = 0.            *)

DuenoInv ==
    cortes = 0 =>
      \A w \in Consumidores :
         /\ ~aislado[w]
         /\ Ocupado(w) =>
              /\ vida[w] # "parado"
              /\ LockEs(tarea[w].job, w)
              /\ tarea[w].intentos = jobs[tarea[w].job].intentos
              /\ jobs[tarea[w].job].silencio <= MaxSilencio

LEMMA DuenoInit == Init => DuenoInv
  BY DEF Init, DuenoInv, Ocupado, Libre

(* A row nobody executes may change in any way; an executor's row may not. *)
LEMMA DuenoMarco ==
    ASSUME Base, DuenoInv, cortes = 0, NEW w \in Consumidores, Ocupado(w),
           NEW k \in Ids, ~LockEs(k, w), NEW f, jobs' = [jobs EXCEPT ![k] = f]
    PROVE  jobs'[tarea[w].job] = jobs[tarea[w].job]
  BY DEF Base, TypeOK, TablaTypeOK, TareaOK, DuenoInv

LEMMA DuenoPaso ==
    ASSUME Base, DuenoInv, NEW w \in Consumidores, Paso(w)
    PROVE  DuenoInv'
  <1> SUFFICES ASSUME cortes' = 0, NEW v \in Consumidores
               PROVE  /\ ~aislado'[v]
                      /\ Ocupado(v)' =>
                           /\ vida'[v] # "parado"
                           /\ LockEs(tarea[v].job, v)'
                           /\ tarea'[v].intentos = jobs'[tarea'[v].job].intentos
                           /\ jobs'[tarea'[v].job].silencio <= MaxSilencio
    BY DEF DuenoInv
  <1>0. cortes = 0 /\ aislado' = aislado
    BY DEF Paso, Tomar, Latir, HandlerTermina, Ack, Fail, CierrePerdido, Barrer, Salir
  <1> USE DEF Base, TypeOK, TareaOK
  <1>1. CASE Tomar(w)
    <2>1. PICK j \in Ids :
            /\ Reclamar(w, TiposADemanda, j)
            /\ tarea' = [tarea EXCEPT ![w] =
                           [fase |-> "handler", job |-> j,
                            intentos |-> jobs[j].intentos + 1, late |-> TRUE]]
      BY <1>1 DEF Tomar
    <2>2. jobs[j].estado = "pending" /\ jobs[j] \in Fila
      BY <2>1 DEF Reclamar, Reclamables, TablaTypeOK
    <2>3. jobs' = [jobs EXCEPT ![j] = Tomada(jobs[j], w)]
      BY <2>1 DEF Reclamar
    <2>4. CASE v = w
      <3>1. tarea'[v].job = j /\ tarea'[v].intentos = jobs[j].intentos + 1
        BY <2>1, <2>4
      <3>2. jobs'[j] = Tomada(jobs[j], w)
        BY <2>3 DEF TablaTypeOK
      <3>3. /\ jobs'[j].estado = "running" /\ jobs'[j].locked_by = w
            /\ jobs'[j].silencio = 0 /\ jobs'[j].intentos = jobs[j].intentos + 1
        BY <2>2, <3>2 DEF Tomada, Fila
      <3>4. vida'[v] # "parado"
        BY <1>1, <2>4 DEF Tomar
      <3> QED
        BY <1>0, <2>4, <3>1, <3>3, <3>4, LatidoAssumption DEF LockEs, DuenoInv
    <2>5. CASE v # w
      <3>1. tarea'[v] = tarea[v] /\ vida' = vida
        BY <1>1, <2>1, <2>5 DEF Tomar
      <3>2. ~LockEs(j, v)
        BY <2>2 DEF LockEs
      <3>3. Ocupado(v) => jobs'[tarea[v].job] = jobs[tarea[v].job]
        BY <1>0, <2>3, <3>2, DuenoMarco
      <3> QED
        BY <1>0, <3>1, <3>3 DEF DuenoInv, LockEs, Ocupado
    <2> QED
      BY <2>4, <2>5
  <1>2. CASE Latir(w)
    <2>1. Ocupado(w) /\ LockEs(tarea[w].job, w) /\ tarea[w].job \in Ids
      BY <1>0, <1>2 DEF Latir, DuenoInv, Ocupado
    <2>2. jobs' = [jobs EXCEPT ![tarea[w].job].silencio = 0]
      BY <1>2, <2>1 DEF Latir, RenovarLock
    <2>3. /\ tarea'[v].job = tarea[v].job /\ tarea'[v].intentos = tarea[v].intentos
          /\ tarea'[v].fase = tarea[v].fase /\ vida' = vida
      BY <1>2 DEF Latir, Tarea
    <2>4. ASSUME Ocupado(v)
          PROVE  LET a == jobs[tarea[v].job]
                     b == jobs'[tarea[v].job]
                 IN  /\ b.estado = a.estado /\ b.locked_by = a.locked_by
                     /\ b.intentos = a.intentos
                     /\ b.silencio = 0 \/ b.silencio = a.silencio
      BY <2>1, <2>2, <2>4 DEF TablaTypeOK, Fila
    <2> QED
      BY <1>0, <2>3, <2>4, LatidoAssumption DEF DuenoInv, LockEs, Ocupado
  <1>3. ASSUME NEW r \in {"ok", "error"}, HandlerTermina(w, r)
        PROVE  Ocupado(v)' =>
                 /\ vida'[v] # "parado"
                 /\ LockEs(tarea[v].job, v)'
                 /\ tarea'[v].intentos = jobs'[tarea'[v].job].intentos
                 /\ jobs'[tarea'[v].job].silencio <= MaxSilencio
    <2>1. /\ tarea'[v].job = tarea[v].job /\ tarea'[v].intentos = tarea[v].intentos
          /\ Ocupado(v)' => Ocupado(v)
          /\ vida' = vida /\ jobs' = jobs
      BY <1>3 DEF HandlerTermina, Tarea, Ocupado
    <2> QED
      BY <1>0, <2>1 DEF DuenoInv, LockEs
  <1>4. ASSUME NEW e, NEW x, Ocupado(w), Cerrar(tarea[w].job, e, x),
               tarea' = [tarea EXCEPT ![w] = Libre], vida' = vida
        PROVE  Ocupado(v)' =>
                 /\ vida'[v] # "parado"
                 /\ LockEs(tarea[v].job, v)'
                 /\ tarea'[v].intentos = jobs'[tarea'[v].job].intentos
                 /\ jobs'[tarea'[v].job].silencio <= MaxSilencio
    <2>1. CASE v = w
      BY <1>4, <2>1 DEF Ocupado, Libre
    <2>2. CASE v # w
      <3>1. tarea'[v] = tarea[v]
        BY <1>4, <2>2
      <3>2. ~LockEs(tarea[w].job, v)
        BY <1>0, <1>4, <2>2 DEF DuenoInv, LockEs
      <3>3. Ocupado(v) => jobs'[tarea[v].job] = jobs[tarea[v].job]
        BY <1>0, <1>4, <3>2, DuenoMarco DEF Cerrar
      <3> QED
        BY <1>0, <1>4, <3>1, <3>3 DEF DuenoInv, LockEs, Ocupado
    <2> QED
      BY <2>1, <2>2
  <1>5. CASE Ack(w)
    BY <1>0, <1>4, <1>5 DEF Ack, MarcarTerminado, Ocupado, DuenoInv
  <1>6. CASE Fail(w)
    BY <1>0, <1>4, <1>6 DEF Fail, MarcarFallido, Reprogramar, Ocupado, DuenoInv
  <1>7. CASE CierrePerdido(w)
    BY <1>0, <1>7 DEF CierrePerdido, DuenoInv
  <1>8. CASE Barrer(w)
    <2>1. Ocupado(v) => ~Caducado(tarea[v].job)
      BY <1>0, LatidoAssumption, TablaAssumption DEF DuenoInv, Caducado, TablaTypeOK, Fila
    <2>2. Ocupado(v) => jobs'[tarea[v].job] = jobs[tarea[v].job]
      BY <1>8, <2>1 DEF Barrer, ReclamarCaducados, Barrida
    <2> QED
      BY <1>0, <1>8, <2>2 DEF Barrer, DuenoInv, LockEs, Ocupado
  <1>9. CASE Salir(w)
    BY <1>0, <1>9 DEF Salir, DuenoInv, LockEs, Ocupado
  <1> QED
    BY <1>0, <1>1, <1>2, <1>3, <1>5, <1>6, <1>7, <1>8, <1>9 DEF Paso, DuenoInv

LEMMA DuenoEntorno ==
    ASSUME Base, DuenoInv, NEW w \in Consumidores, Entorno(w)
    PROVE  DuenoInv'
  <1> USE DEF Base, TypeOK, DuenoInv, LockEs, Ocupado
  <1>1. CASE Detener(w)
    BY <1>1 DEF Detener
  <1>2. CASE Caer(w)
    BY <1>2 DEF Caer, Libre
  <1>3. CASE Arrancar(w)
    BY <1>3 DEF Arrancar
  <1>4. CASE Aislar(w)
    BY <1>4 DEF Aislar
  <1>5. CASE Reconectar(w)
    BY <1>5 DEF Reconectar
  <1> QED
    BY <1>1, <1>2, <1>3, <1>4, <1>5 DEF Entorno

LEMMA DuenoTick == Base /\ DuenoInv /\ Tick => DuenoInv'
  <1> SUFFICES ASSUME Base, DuenoInv, Tick, cortes' = 0,
                      NEW w \in Consumidores
               PROVE  /\ ~aislado'[w]
                      /\ Ocupado(w)' =>
                           /\ vida'[w] # "parado"
                           /\ LockEs(tarea[w].job, w)'
                           /\ tarea'[w].intentos = jobs'[tarea'[w].job].intentos
                           /\ jobs'[tarea'[w].job].silencio <= MaxSilencio
    BY DEF DuenoInv
  <1>1. cortes = 0 /\ aislado' = aislado /\ tarea' = tarea /\ vida' = vida
    BY DEF Tick
  <1>2. CASE ~Ocupado(w)
    BY <1>1, <1>2 DEF DuenoInv, Ocupado
  <1>3. CASE Ocupado(w)
    <2> DEFINE f == jobs[tarea[w].job]
    <2>1. tarea[w].job \in Ids /\ f \in Fila
      BY <1>3 DEF Base, TypeOK, TareaOK, TablaTypeOK
    <2>2. jobs'[tarea[w].job] = Envejecida(f)
      BY <2>1 DEF Tick, PasaElTiempo
    <2>3. LockEs(tarea[w].job, w) /\ vida[w] # "parado" /\ ~aislado[w]
      BY <1>1, <1>3 DEF DuenoInv
    <2>4. f.silencio < MaxSilencio
      BY <1>3, <2>3 DEF Tick, Puede
    <2>5. /\ Envejecida(f).estado = f.estado
          /\ Envejecida(f).locked_by = f.locked_by
          /\ Envejecida(f).intentos = f.intentos
          /\ Envejecida(f).silencio \in {f.silencio, f.silencio + 1}
      BY <2>1 DEF Envejecida, Fila
    <2>6. f.silencio \in Nat
      BY <2>1 DEF Fila
    <2>7. jobs'[tarea[w].job].silencio <= MaxSilencio
      BY <2>2, <2>4, <2>5, <2>6, LatidoAssumption
    <2> QED
      BY <1>1, <1>3, <2>2, <2>3, <2>5, <2>7 DEF DuenoInv, LockEs
  <1> QED
    BY <1>2, <1>3

LEMMA DuenoStep == Base /\ DuenoInv /\ [Next]_vars => DuenoInv'
  <1> SUFFICES ASSUME Base, DuenoInv, [Next]_vars PROVE DuenoInv'
    OBVIOUS
  <1>1. CASE Encolar
    <2>1. PICK j \in Ids, t \in Tipos : Insertar(j, t)
      BY <1>1 DEF Encolar
    <2>2. jobs[j].estado = "ausente"
      BY <2>1 DEF Insertar
    <2>3. ASSUME cortes = 0, NEW w \in Consumidores, Ocupado(w)
          PROVE  jobs'[tarea[w].job] = jobs[tarea[w].job]
      BY <2>1, <2>2, <2>3, DuenoMarco DEF Insertar, LockEs
    <2> QED
      BY <1>1, <2>3 DEF Encolar, DuenoInv, LockEs, Ocupado
  <1>2. CASE Tick
    BY <1>2, DuenoTick
  <1>3. CASE UNCHANGED vars
    BY <1>3 DEF vars, DuenoInv, LockEs, Ocupado
  <1> QED
    BY <1>1, <1>2, <1>3, DuenoPaso, DuenoEntorno DEF Next

(* Until a consumer loses the database, the row of a job in execution      *)
(* belongs to its executor: no crash, redeployment, sweep or passage of    *)
(* time lets two consumers execute one job.                                *)
THEOREM ElLockEsDelEjecutor == Spec => []LockDelEjecutor
  <1>1. Spec => [](Base /\ DuenoInv)
    BY BaseInit, BaseStep, DuenoInit, DuenoStep, PTL DEF Spec
  <1>2. Base /\ DuenoInv => LockDelEjecutor
    BY DEF DuenoInv, LockDelEjecutor
  <1> QED
    BY <1>1, <1>2, PTL

-----------------------------------------------------------------------------
(* The attempt number is a fencing token.  Every step leaves the counter   *)
(* of a row alone or, when it takes the lock, raises it above every number *)
(* a consumer holds; that is all the invariant needs.                      *)

LEMMA FichaInit == Init => IntentoEsFicha
  BY DEF Init, IntentoEsFicha, Ocupado, Libre

(* No statement other than reclamar touches the counter. *)
LEMMA ContadorTabla ==
    ASSUME TablaTypeOK,
           \/ \E j \in Ids, t \in Tipos : Insertar(j, t)
           \/ \E j \in Ids, w \in Consumidores : RenovarLock(j, w)
           \/ \E j \in Ids : \E e, x : Cerrar(j, e, x)
           \/ ReclamarCaducados
           \/ PasaElTiempo
           \/ jobs' = jobs
    PROVE  \A i \in Ids : jobs'[i].intentos = jobs[i].intentos
  <1> SUFFICES ASSUME NEW i \in Ids PROVE jobs'[i].intentos = jobs[i].intentos
    OBVIOUS
  <1>1. jobs[i] \in Fila
    BY DEF TablaTypeOK
  <1>2. ASSUME NEW e, NEW x
        PROVE  Suelta(jobs[i], e, x).intentos = jobs[i].intentos
    BY <1>1 DEF Suelta, Fila
  <1>3. Envejecida(jobs[i]).intentos = jobs[i].intentos
    BY <1>1 DEF Envejecida, Fila
  <1>4. CASE \E j \in Ids, t \in Tipos : Insertar(j, t)
    <2>1. PICK j \in Ids, t \in Tipos : Insertar(j, t)
      BY <1>4
    <2>2. jobs' = [jobs EXCEPT ![j] = [jobs[j] EXCEPT !.estado = "pending", !.tipo = t]]
      BY <2>1 DEF Insertar
    <2>3. jobs[j] \in Fila
      BY DEF TablaTypeOK
    <2>4. [jobs[j] EXCEPT !.estado = "pending", !.tipo = t].intentos = jobs[j].intentos
      BY <2>3 DEF Fila
    <2> QED
      BY <2>2, <2>4 DEF TablaTypeOK
  <1>5. CASE \E j \in Ids, w \in Consumidores : RenovarLock(j, w)
    BY <1>1, <1>5 DEF RenovarLock, TablaTypeOK, Fila
  <1>6. CASE \E j \in Ids : \E e, x : Cerrar(j, e, x)
    BY <1>2, <1>6 DEF Cerrar, TablaTypeOK
  <1>7. CASE ReclamarCaducados
    BY <1>2, <1>7 DEF ReclamarCaducados, Barrida
  <1>8. CASE PasaElTiempo
    BY <1>3, <1>8 DEF PasaElTiempo
  <1> QED
    BY <1>4, <1>5, <1>6, <1>7, <1>8

(* A step that keeps the counters and lets no consumer take a job. *)
LEMMA FichaQuieta ==
    ASSUME IntentoEsFicha, TareaOK,
           \A i \in Ids : jobs'[i].intentos = jobs[i].intentos,
           \A w \in Consumidores : Ocupado(w)' =>
              /\ Ocupado(w)
              /\ tarea'[w].job = tarea[w].job /\ tarea'[w].intentos = tarea[w].intentos
    PROVE  IntentoEsFicha'
  BY DEF IntentoEsFicha, TareaOK

LEMMA FichaStep == Base /\ IntentoEsFicha /\ [Next]_vars => IntentoEsFicha'
  <1> SUFFICES ASSUME Base, IntentoEsFicha, [Next]_vars PROVE IntentoEsFicha'
    OBVIOUS
  <1> USE DEF Base, TypeOK
  <1>1. CASE \E w \in Consumidores : Tomar(w)
    <2>1. PICK w \in Consumidores : Tomar(w)
      BY <1>1
    <2>2. PICK j \in Ids :
            /\ Reclamar(w, TiposADemanda, j)
            /\ tarea' = [tarea EXCEPT ![w] =
                           [fase |-> "handler", job |-> j,
                            intentos |-> jobs[j].intentos + 1, late |-> TRUE]]
      BY <2>1 DEF Tomar
    <2>3. jobs[j] \in Fila /\ jobs[j].intentos \in Nat
      BY DEF TablaTypeOK, Fila
    <2>4. Tomada(jobs[j], w).intentos = jobs[j].intentos + 1
      BY <2>3 DEF Tomada, Fila
    <2>5. /\ jobs'[j].intentos = jobs[j].intentos + 1
          /\ \A i \in Ids \ {j} : jobs'[i] = jobs[i]
      BY <2>2, <2>4 DEF Reclamar, TablaTypeOK
    <2>6. tarea'[w].job = j /\ tarea'[w].intentos = jobs[j].intentos + 1
      BY <2>2
    <2>7. \A v \in Consumidores \ {w} : tarea'[v] = tarea[v]
      BY <2>2
    <2>8. \A v \in Consumidores : tarea[v].intentos \in Nat
      BY DEF Tarea
    <2>9. \A v \in Consumidores : Ocupado(v) =>
             /\ tarea[v].job \in Ids
             /\ 1 <= tarea[v].intentos
             /\ tarea[v].intentos <= jobs[tarea[v].job].intentos
      BY DEF IntentoEsFicha, TareaOK
    <2> QED
      BY <2>3, <2>5, <2>6, <2>7, <2>8, <2>9 DEF IntentoEsFicha, Ocupado
  <1>2. CASE Encolar
    BY <1>2, ContadorTabla, FichaQuieta DEF Encolar, Ocupado
  <1>3. CASE Tick
    BY <1>3, ContadorTabla, FichaQuieta DEF Tick, Ocupado
  <1>4. CASE UNCHANGED vars
    BY <1>4, ContadorTabla, FichaQuieta DEF vars, Ocupado
  <1>5. ASSUME NEW w \in Consumidores, Paso(w) \/ Entorno(w), ~Tomar(w)
        PROVE  IntentoEsFicha'
    <2>1. CASE Latir(w)
      <3>1. \A i \in Ids : jobs'[i].intentos = jobs[i].intentos
        BY <2>1, ContadorTabla DEF Latir, TareaOK, Ocupado
      <3>2. \A v \in Consumidores : tarea'[v].job = tarea[v].job
              /\ tarea'[v].intentos = tarea[v].intentos /\ tarea'[v].fase = tarea[v].fase
        BY <2>1 DEF Latir, Tarea
      <3> QED
        BY <3>1, <3>2, FichaQuieta DEF Ocupado
    <2>2. ASSUME NEW r \in {"ok", "error"}, HandlerTermina(w, r)
          PROVE  IntentoEsFicha'
      <3>1. \A v \in Consumidores : tarea'[v].job = tarea[v].job
              /\ tarea'[v].intentos = tarea[v].intentos /\ (Ocupado(v)' => Ocupado(v))
        BY <2>2 DEF HandlerTermina, Tarea, Ocupado
      <3>2. \A i \in Ids : jobs'[i].intentos = jobs[i].intentos
        BY <2>2 DEF HandlerTermina
      <3> QED
        BY <3>1, <3>2, FichaQuieta
    <2>3. ASSUME tarea' = [tarea EXCEPT ![w] = Libre],
                 \A i \in Ids : jobs'[i].intentos = jobs[i].intentos
          PROVE  IntentoEsFicha'
      <3>1. \A v \in Consumidores : Ocupado(v)' => Ocupado(v) /\ tarea'[v] = tarea[v]
        BY <2>3 DEF Ocupado, Libre
      <3> QED
        BY <2>3, <3>1, FichaQuieta
    <2>4. CASE Ack(w)
      BY <2>3, <2>4, ContadorTabla DEF Ack, MarcarTerminado, TareaOK, Ocupado
    <2>5. CASE Fail(w)
      BY <2>3, <2>5, ContadorTabla DEF Fail, MarcarFallido, Reprogramar, TareaOK, Ocupado
    <2>6. CASE CierrePerdido(w) \/ Caer(w)
      BY <2>3, <2>6 DEF CierrePerdido, Caer
    <2>7. CASE Barrer(w)
      BY <2>7, ContadorTabla, FichaQuieta DEF Barrer, Ocupado
    <2>8. CASE Salir(w) \/ Detener(w) \/ Arrancar(w) \/ Aislar(w) \/ Reconectar(w)
      BY <2>8, FichaQuieta DEF Salir, Detener, Arrancar, Aislar, Reconectar, Ocupado
    <2> QED
      BY <1>5, <2>1, <2>2, <2>4, <2>5, <2>6, <2>7, <2>8 DEF Paso, Entorno
  <1> QED
    BY <1>1, <1>2, <1>3, <1>4, <1>5 DEF Next

(* In every behaviour, lost locks included, two executions of one job hold *)
(* different attempt numbers, and none is above its row's counter.         *)
THEOREM ElIntentoEsFicha == Spec => []IntentoEsFicha
  BY BaseInit, BaseStep, FichaInit, FichaStep, PTL DEF Spec

-----------------------------------------------------------------------------
(* The job queue implements JobPromesa.  Seen from the outside a step moves *)
(* each row along one edge of the promise or leaves it; that it cannot do   *)
(* more follows from who owns a running row (DuenoInv) and from how many    *)
(* attempts a waiting row can have used (UsadosInv).                        *)

(* Until a consumer loses the database an attempt is left for every row    *)
(* that waits, and no row has used more than there are.                    *)
UsadosInv ==
    cortes = 0 =>
      \A j \in Ids :
         /\ jobs[j].estado = "ausente" => jobs[j].intentos = 0
         /\ jobs[j].estado = "pending" => jobs[j].intentos < MaxIntentos
         /\ jobs[j].intentos <= MaxIntentos

(* An edge of the promise between two versions of a row. *)
Arista(f, g) ==
    \/ /\ g.estado = f.estado /\ g.intentos = f.intentos
    \/ /\ f.estado = "ausente" /\ g.estado = "pending" /\ g.intentos = f.intentos
    \/ /\ f.estado = "pending" /\ g.estado = "running" /\ g.intentos = f.intentos + 1
    \/ /\ f.estado = "running" /\ g.estado = "done" /\ g.intentos = f.intentos
    \/ /\ f.estado = "running" /\ g.estado = "pending" /\ g.intentos = f.intentos
       /\ f.intentos < MaxIntentos
    \/ /\ f.estado = "running" /\ g.estado = "failed" /\ g.intentos = f.intentos
       /\ f.intentos = MaxIntentos

Inv == Base /\ DuenoInv /\ UsadosInv

-----------------------------------------------------------------------------
(* What the closing of a row by its executor, and the sweep, do to it.     *)
LEMMA SueltaCampos ==
    ASSUME NEW f \in Fila, NEW e, NEW x
    PROVE  Suelta(f, e, x).estado = e /\ Suelta(f, e, x).intentos = f.intentos
  BY DEF Suelta, Fila

(* An executor's row is running, at the attempt it claimed. *)
LEMMA FilaDelEjecutor ==
    ASSUME Inv, cortes = 0, NEW w \in Consumidores, Ocupado(w)
    PROVE  /\ tarea[w].job \in Ids
           /\ jobs[tarea[w].job] \in Fila
           /\ jobs[tarea[w].job].estado = "running"
           /\ jobs[tarea[w].job].intentos = tarea[w].intentos
           /\ tarea[w].intentos <= MaxIntentos
  BY DEF Inv, Base, TypeOK, TablaTypeOK, TareaOK, DuenoInv, LockEs, UsadosInv

(* A row that is closed along an edge, and nothing else, is all that moves. *)
LEMMA CerrarArista ==
    ASSUME Inv, NEW k \in Ids, NEW e, NEW x, Cerrar(k, e, x),
           jobs[k].estado = "running",
           \/ e = "done"
           \/ e = "pending" /\ jobs[k].intentos < MaxIntentos
           \/ e = "failed" /\ jobs[k].intentos = MaxIntentos,
           NEW j \in Ids
    PROVE  Arista(jobs[j], jobs'[j])
  <1>1. jobs[k] \in Fila /\ jobs' = [jobs EXCEPT ![k] = Suelta(jobs[k], e, x)]
    BY DEF Inv, Base, TypeOK, TablaTypeOK, Cerrar
  <1>2. CASE j = k
    <2>1. jobs'[j] = Suelta(jobs[k], e, x)
      BY <1>1, <1>2 DEF Inv, Base, TypeOK, TablaTypeOK
    <2> QED
      BY <1>1, <1>2, <2>1, SueltaCampos DEF Arista
  <1>3. CASE j # k
    BY <1>1, <1>3 DEF Arista
  <1> QED
    BY <1>2, <1>3

-----------------------------------------------------------------------------
(* Every step moves every row along an edge while nobody has lost the      *)
(* database.                                                               *)
LEMMA AristaPaso ==
    ASSUME Inv, cortes = 0, NEW w \in Consumidores, Paso(w), NEW j \in Ids
    PROVE  Arista(jobs[j], jobs'[j])
  <1>0. jobs[j] \in Fila
    BY DEF Inv, Base, TypeOK, TablaTypeOK
  <1>1. CASE Tomar(w)
    <2>1. PICK k \in Ids : Reclamar(w, TiposADemanda, k)
      BY <1>1 DEF Tomar
    <2>2. jobs[k].estado = "pending" /\ jobs' = [jobs EXCEPT ![k] = Tomada(jobs[k], w)]
      BY <2>1 DEF Reclamar, Reclamables
    <2>3. CASE j = k
      <3>1. jobs'[j] = Tomada(jobs[j], w)
        BY <2>2, <2>3 DEF Inv, Base, TypeOK, TablaTypeOK
      <3>2. jobs'[j].estado = "running" /\ jobs'[j].intentos = jobs[j].intentos + 1
        BY <1>0, <3>1 DEF Tomada, Fila
      <3> QED
        BY <2>2, <2>3, <3>2 DEF Arista
    <2>4. CASE j # k
      BY <2>2, <2>4 DEF Arista
    <2> QED
      BY <2>3, <2>4
  <1>2. CASE Latir(w)
    <2>1. jobs'[j].estado = jobs[j].estado /\ jobs'[j].intentos = jobs[j].intentos
      BY <1>0, <1>2 DEF Latir, RenovarLock, Inv, Base, TypeOK, TablaTypeOK, Fila
    <2> QED
      BY <2>1 DEF Arista
  <1>3. CASE Ack(w)
    <2>1. Ocupado(w) /\ Cerrar(tarea[w].job, "done", 0)
      BY <1>3 DEF Ack, MarcarTerminado, Ocupado
    <2> QED
      BY <2>1, FilaDelEjecutor, CerrarArista
  <1>4. CASE Fail(w)
    <2>1. Ocupado(w)
      BY <1>4 DEF Fail, Ocupado
    <2>2. tarea[w].intentos \in Nat /\ MaxIntentos \in Nat
      BY TablaAssumption DEF Inv, Base, TypeOK, Tarea
    <2>3. CASE tarea[w].intentos >= MaxIntentos
      <3>1. Cerrar(tarea[w].job, "failed", 0)
        BY <1>4, <2>3 DEF Fail, MarcarFallido
      <3>2. jobs[tarea[w].job].intentos = MaxIntentos
        BY <2>1, <2>2, <2>3, FilaDelEjecutor
      <3> QED
        BY <2>1, <3>1, <3>2, FilaDelEjecutor, CerrarArista
    <2>4. CASE ~(tarea[w].intentos >= MaxIntentos)
      <3>1. Cerrar(tarea[w].job, "pending", Backoff(tarea[w].intentos))
        BY <1>4, <2>4 DEF Fail, Reprogramar
      <3>2. jobs[tarea[w].job].intentos < MaxIntentos
        BY <2>1, <2>2, <2>4, FilaDelEjecutor
      <3> QED
        BY <2>1, <3>1, <3>2, FilaDelEjecutor, CerrarArista
    <2> QED
      BY <2>3, <2>4
  <1>5. CASE Barrer(w)
    <2>1. CASE ~Caducado(j)
      BY <1>5, <2>1 DEF Barrer, ReclamarCaducados, Barrida, Arista
    <2>2. CASE Caducado(j)
      <3>1. jobs[j].estado = "running"
        BY <2>2 DEF Caducado
      <3>2. jobs[j].intentos \in Nat /\ MaxIntentos \in Nat /\ jobs[j].intentos <= MaxIntentos
        BY <1>0, TablaAssumption DEF Fila, Inv, UsadosInv
      <3>3. CASE jobs[j].intentos >= MaxIntentos
        <4>1. jobs'[j] = Suelta(jobs[j], "failed", 0)
          BY <1>5, <2>2, <3>3 DEF Barrer, ReclamarCaducados, Barrida
        <4> QED
          BY <1>0, <3>1, <3>2, <3>3, <4>1, SueltaCampos DEF Arista
      <3>4. CASE ~(jobs[j].intentos >= MaxIntentos)
        <4>1. jobs'[j] = Suelta(jobs[j], "pending", jobs[j].espera)
          BY <1>5, <2>2, <3>4 DEF Barrer, ReclamarCaducados, Barrida
        <4> QED
          BY <1>0, <3>1, <3>2, <3>4, <4>1, SueltaCampos DEF Arista
      <3> QED
        BY <3>3, <3>4
    <2> QED
      BY <2>1, <2>2
  <1>6. CASE HandlerTermina(w, "ok") \/ HandlerTermina(w, "error") \/ CierrePerdido(w) \/ Salir(w)
    BY <1>6 DEF HandlerTermina, CierrePerdido, Salir, Arista
  <1> QED
    BY <1>1, <1>2, <1>3, <1>4, <1>5, <1>6 DEF Paso

(* The same of any step: an enqueued row, a tick, and what leaves the table *)
(* alone.                                                                  *)
LEMMA AristaNext ==
    ASSUME Inv, [Next]_vars, cortes = 0, NEW j \in Ids
    PROVE  Arista(jobs[j], jobs'[j])
  <1>0. jobs[j] \in Fila
    BY DEF Inv, Base, TypeOK, TablaTypeOK
  <1>1. CASE Encolar
    <2>1. PICK k \in Ids, t \in Tipos : Insertar(k, t)
      BY <1>1 DEF Encolar
    <2>2. /\ jobs[k].estado = "ausente"
          /\ jobs' = [jobs EXCEPT ![k] = [jobs[k] EXCEPT !.estado = "pending", !.tipo = t]]
      BY <2>1 DEF Insertar
    <2>3. CASE j = k
      <3>1. jobs'[j] = [jobs[j] EXCEPT !.estado = "pending", !.tipo = t]
        BY <2>2, <2>3 DEF Inv, Base, TypeOK, TablaTypeOK
      <3>2. jobs'[j].estado = "pending" /\ jobs'[j].intentos = jobs[j].intentos
        BY <1>0, <3>1 DEF Fila
      <3> QED
        BY <2>2, <2>3, <3>2 DEF Arista
    <2>4. CASE j # k
      BY <2>2, <2>4 DEF Arista
    <2> QED
      BY <2>3, <2>4
  <1>2. CASE Tick
    <2>1. jobs'[j] = Envejecida(jobs[j])
      BY <1>2 DEF Tick, PasaElTiempo
    <2>2. jobs'[j].estado = jobs[j].estado /\ jobs'[j].intentos = jobs[j].intentos
      BY <1>0, <2>1 DEF Envejecida, Fila
    <2> QED
      BY <2>2 DEF Arista
  <1>3. CASE \E w \in Consumidores : Entorno(w)
    BY <1>3 DEF Entorno, Detener, Caer, Arrancar, Aislar, Reconectar, Arista
  <1>4. CASE UNCHANGED vars
    BY <1>4 DEF vars, Arista
  <1> QED
    BY <1>1, <1>2, <1>3, <1>4, AristaPaso DEF Next

(* The count of losses only grows, and only Aislar moves it. *)
LEMMA Cortes ==
    ASSUME Inv, [Next]_vars
    PROVE  /\ cortes \in Nat /\ cortes' \in Nat
           /\ cortes' = cortes \/ cortes' = cortes + 1
  <1>1. cortes \in Nat
    BY DEF Inv, Base, TypeOK
  <1>2. CASE Encolar \/ Tick \/ UNCHANGED vars
    BY <1>1, <1>2 DEF Encolar, Tick, vars
  <1>3. CASE \E w \in Consumidores : Paso(w)
    BY <1>1, <1>3 DEF Paso, Tomar, Latir, HandlerTermina, Ack, Fail, CierrePerdido, Barrer,
                      Salir
  <1>4. CASE \E w \in Consumidores : Entorno(w)
    BY <1>1, <1>4 DEF Entorno, Detener, Caer, Arrancar, Aislar, Reconectar
  <1> QED
    BY <1>2, <1>3, <1>4 DEF Next

(* UsadosInv is inductive, together with who owns the running rows.        *)
LEMMA UsadosInit == Init => UsadosInv
  BY TablaAssumption DEF Init, TablaInit, SinFila, UsadosInv

LEMMA UsadosStep == Inv /\ [Next]_vars => UsadosInv'
  <1> SUFFICES ASSUME Inv, [Next]_vars, cortes' = 0, NEW j \in Ids
               PROVE  /\ jobs'[j].estado = "ausente" => jobs'[j].intentos = 0
                      /\ jobs'[j].estado = "pending" => jobs'[j].intentos < MaxIntentos
                      /\ jobs'[j].intentos <= MaxIntentos
    BY DEF UsadosInv
  <1>1. cortes = 0
    BY Cortes
  <1>2. Arista(jobs[j], jobs'[j])
    BY <1>1, AristaNext
  <1>3. jobs[j].intentos \in Nat /\ MaxIntentos \in Nat \ {0}
    BY TablaAssumption DEF Inv, Base, TypeOK, TablaTypeOK, Fila
  <1>4. /\ jobs[j].estado = "ausente" => jobs[j].intentos = 0
        /\ jobs[j].estado = "pending" => jobs[j].intentos < MaxIntentos
        /\ jobs[j].intentos <= MaxIntentos
    BY <1>1 DEF Inv, UsadosInv
  <1> QED
    BY <1>2, <1>3, <1>4 DEF Arista

(* The invariant the theorems below rest on. *)
LEMMA InvSiempre == Spec => []Inv
  <1>1. Init => Inv
    BY BaseInit, DuenoInit, UsadosInit DEF Inv
  <1>2. Inv /\ [Next]_vars => Inv'
    BY BaseStep, DuenoStep, UsadosStep DEF Inv
  <1> QED
    BY <1>1, <1>2, PTL DEF Spec

-----------------------------------------------------------------------------
(* Until a consumer loses the database no job is attempted more than       *)
(* JOBS_MAX_INTENTOS times: neither fail, nor the sweep, nor a crash       *)
(* between them gives one more.                                            *)
THEOREM SinCortesAcotados == Spec => [](cortes = 0 => IntentosAcotados)
  <1>1. Inv => (cortes = 0 => IntentosAcotados)
    BY DEF Inv, UsadosInv, IntentosAcotados
  <1> QED
    BY <1>1, InvSiempre, PTL

(* An edge of the row is a step of the promise. *)
LEMMA AristaCumple ==
    ASSUME NEW j \in Ids, jobs[j].estado \in Estados, jobs[j].intentos \in Nat,
           Arista(jobs[j], jobs'[j]), jobs[j].estado = "pending" => jobs[j].intentos < MaxIntentos
    PROVE  \/ Promesa!Quieto(j) \/ Promesa!Encolado(j) \/ Promesa!Intento(j)
           \/ Promesa!Exito(j) \/ Promesa!Reintento(j) \/ Promesa!Abandono(j)
  <1>1. /\ Fase["ausente"] = "nada" /\ Fase["pending"] = "espera"
        /\ Fase["running"] = "intento" /\ Fase["done"] = "hecho" /\ Fase["failed"] = "fallido"
    BY DEF Fase
  <1> HIDE DEF Fase
  <1> QED
    BY <1>1 DEF Arista, Promesa!Quieto, Promesa!Encolado, Promesa!Intento, Promesa!Exito,
                Promesa!Reintento, Promesa!Abandono, Promesa!Pasa

(* Initial states map to initial states, and steps to steps. *)
LEMMA PromesaInit == Init => Promesa!Init
  <1> SUFFICES ASSUME Init PROVE Promesa!Init
    OBVIOUS
  <1>1. Fase["ausente"] = "nada"
    BY DEF Fase
  <1>2. \A j \in Ids : jobs[j].estado = "ausente" /\ jobs[j].intentos = 0
    BY DEF Init, TablaInit, SinFila
  <1>3. ~(cortes > 0)
    BY DEF Init
  <1> QED
    BY <1>1, <1>2, <1>3 DEF Promesa!Init

LEMMA PromesaStep ==
    Inv /\ [Next]_vars => [Promesa!Cumple \/ Promesa!Rompe]_(Promesa!vars)
  <1> SUFFICES ASSUME Inv, [Next]_vars
               PROVE  Promesa!Cumple \/ Promesa!Rompe
    OBVIOUS
  <1>1. CASE cortes' > 0
    BY <1>1 DEF Promesa!Rompe
  <1>2. CASE ~(cortes' > 0)
    <2>1. cortes = 0 /\ cortes' = 0
      BY <1>2, Cortes
    <2>2. ASSUME NEW j \in Ids
          PROVE  \/ Promesa!Quieto(j) \/ Promesa!Encolado(j) \/ Promesa!Intento(j)
                 \/ Promesa!Exito(j) \/ Promesa!Reintento(j) \/ Promesa!Abandono(j)
      <3>1. jobs[j].estado \in Estados /\ jobs[j].intentos \in Nat
        BY DEF Inv, Base, TypeOK, TablaTypeOK, Fila
      <3>2. jobs[j].estado = "pending" => jobs[j].intentos < MaxIntentos
        BY <2>1 DEF Inv, UsadosInv
      <3>3. Arista(jobs[j], jobs'[j])
        BY <2>1, AristaNext
      <3> QED
        BY <3>1, <3>2, <3>3, AristaCumple
    <2>3. (cortes > 0)' = (cortes > 0)
      BY <2>1
    <2> QED
      BY <2>2, <2>3 DEF Promesa!Cumple
  <1> QED
    BY <1>1, <1>2

(* The queue implements JobPromesa: seen without consumers, locks or time, *)
(* each job waits, is attempted at most JOBS_MAX_INTENTOS times, and ends  *)
(* done, or failed once its attempts are used, until a loss of the         *)
(* database breaks the promise.                                            *)
THEOREM ColaCumplePromesa == Spec => CumplePromesa
  <1>1. Spec => [][Promesa!Cumple \/ Promesa!Rompe]_(Promesa!vars)
    BY InvSiempre, PromesaStep, PTL DEF Spec
  <1> QED
    BY <1>1, PromesaInit, PTL DEF Spec, CumplePromesa, Promesa!Spec

-----------------------------------------------------------------------------
(* enqueue(): however many callers race between its three transactions, and *)
(* however late a consumer closes what it claimed, the duplicates and the   *)
(* excess over the quota are bounded by the callers and the consumers there *)
(* are, and each caller gets the id of a job of its own.                    *)
(*                                                                         *)
(* The bounds are not inductive as they stand: a late fail adds an active  *)
(* job.  What is counted instead are the rows that are active or that a    *)
(* consumer may still make active, and of the second kind there are fewer  *)
(* than consumers: when every consumer is late, one of them at least has a *)
(* row that is active already (AlgunoAlDia), the last to have claimed.     *)
Insertando(t, o) == { s \in Solicitantes : /\ llamada[s].fase = "insertar"
                                           /\ llamada[s].pide.tipo = t
                                           /\ llamada[s].pide.carga.org = o }

(* The fail of this consumer would send the row it claimed back to pending. *)
Devolveria(w) == toma[w].fila # 0 /\ toma[w].intentos < MaxIntentos

Vivo(j) == \/ jobs[j].estado \in Activos
           \/ \E w \in Consumidores : Devolveria(w) /\ toma[w].fila = j

VivosDe(t, o) == { j \in Ids : Vivo(j) /\ jobs[j].tipo = t /\ carga[j].org = o }

VivosDeClave(p) == { j \in Ids : /\ Vivo(j) /\ jobs[j].tipo = p.tipo
                                 /\ carga[j].clave = p.carga.clave
                                 /\ carga[j].org = p.carga.org }

TomaExiste ==
    \A w \in Consumidores : toma[w].fila # 0 => jobs[toma[w].fila].estado # "ausente"

AlgunoAlDia ==
    (\A w \in Consumidores : Devolveria(w)) =>
       \E w \in Consumidores : /\ jobs[toma[w].fila].estado \in Activos
                               /\ jobs[toma[w].fila].intentos < MaxIntentos

TopeClave == Cardinality(Solicitantes) + Cardinality(Consumidores) - 1

TopeCuota == MaxActivos + (Cardinality(Solicitantes) - 1) + (Cardinality(Consumidores) - 1)

VivosAcotados ==
    \A p \in Peticion : p.carga.clave # SinClave =>
       Cardinality(VivosDeClave(p)) + Cardinality(Llamando({"cuota", "insertar"}, p))
         <= TopeClave

CuotaDeVivos ==
    \A t \in TiposConCuota, o \in Orgs :
       Cardinality(VivosDe(t, o)) + Cardinality(Insertando(t, o)) <= TopeCuota

EncoladoInv ==
    /\ EncoladoTypeOK
    /\ TomaExiste
    /\ AlgunoAlDia
    /\ VivosAcotados
    /\ CuotaDeVivos
    /\ DevuelveLoSuyo

-----------------------------------------------------------------------------
(* Finite sets: what moves from one to another is counted once. *)
LEMMA Encoge ==
    ASSUME NEW E, NEW L, IsFiniteSet(E), IsFiniteSet(L),
           NEW F, F \subseteq E, NEW M, M \subseteq L
    PROVE  Cardinality(F) + Cardinality(M) <= Cardinality(E) + Cardinality(L)
  <1>1. /\ Cardinality(F) <= Cardinality(E) /\ Cardinality(M) <= Cardinality(L)
        /\ IsFiniteSet(F) /\ IsFiniteSet(M)
    BY FS_Subset
  <1>2. /\ Cardinality(E) \in Nat /\ Cardinality(L) \in Nat
        /\ Cardinality(F) \in Nat /\ Cardinality(M) \in Nat
    BY <1>1, FS_CardinalityType
  <1> QED
    BY <1>1, <1>2

LEMMA Mueve ==
    ASSUME NEW E, NEW L, IsFiniteSet(E), IsFiniteSet(L), NEW j, NEW s \in L,
           NEW F, F \subseteq E \union {j}, NEW M, M \subseteq L \ {s}
    PROVE  Cardinality(F) + Cardinality(M) <= Cardinality(E) + Cardinality(L)
  <1>1. /\ IsFiniteSet(E \union {j})
        /\ Cardinality(E \union {j}) = IF j \in E THEN Cardinality(E) ELSE Cardinality(E) + 1
    BY FS_AddElement
  <1>2. IsFiniteSet(L \ {s}) /\ Cardinality(L \ {s}) = Cardinality(L) - 1
    BY FS_RemoveElement
  <1>3. Cardinality(E) \in Nat /\ Cardinality(L) \in Nat
    BY FS_CardinalityType
  <1>4. Cardinality(F) + Cardinality(M)
          <= Cardinality(E \union {j}) + Cardinality(L \ {s})
    BY <1>1, <1>2, Encoge
  <1>5. /\ IsFiniteSet(F) /\ IsFiniteSet(M)
    BY <1>1, <1>2, FS_Subset
  <1>6. Cardinality(F) \in Nat /\ Cardinality(M) \in Nat
    BY <1>5, FS_CardinalityType
  <1> QED
    BY <1>1, <1>2, <1>3, <1>4, <1>6

LEMMA PrimeroEs ==
    ASSUME NEW S, S \subseteq Ids, S # {}
    PROVE  Primero(S) \in S
  <1> DEFINE R == OpToRel(<, Nat)
  <1>1. IsWellFoundedOn(R, Nat) /\ S \subseteq Nat
    <2>1. S \subseteq Nat
      BY TablaAssumption DEF Ids
    <2> QED
      BY <2>1, NatLessThanWellFounded
  <1>2. \A x, y \in Nat : y < x => <<y, x>> \in R
    BY DEF OpToRel
  <1> HIDE DEF R
  <1>3. PICK x \in S : \A y \in S : ~ (<<y, x>> \in R)
    BY <1>1, WFMin
  <1>4. \A y \in S : x <= y
    <2>1. ASSUME NEW y \in S PROVE x <= y
      <3>1. ~ (y < x)
        BY <1>1, <1>2, <1>3
      <3>2. x \in Nat /\ y \in Nat
        BY <1>1
      <3> QED
        BY <3>1, <3>2
    <2> QED
      BY <2>1
  <1> QED
    BY <1>4 DEF Primero

LEMMA Finitos ==
    /\ IsFiniteSet(Ids) /\ IsFiniteSet(Solicitantes) /\ IsFiniteSet(Consumidores)
    /\ \A t : \A o : /\ IsFiniteSet(VivosDe(t, o)) /\ IsFiniteSet(Insertando(t, o))
    /\ \A p : /\ IsFiniteSet(VivosDeClave(p))
              /\ IsFiniteSet(Llamando({"cuota", "insertar"}, p))
  <1>1. IsFiniteSet(Ids) /\ IsFiniteSet(Solicitantes) /\ IsFiniteSet(Consumidores)
    BY FS_Interval, TablaAssumption, EncoladoAssumption DEF Ids
  <1>2. ASSUME NEW t, NEW o
        PROVE  IsFiniteSet(VivosDe(t, o)) /\ IsFiniteSet(Insertando(t, o))
    <2>1. VivosDe(t, o) \subseteq Ids /\ Insertando(t, o) \subseteq Solicitantes
      BY DEF VivosDe, Insertando
    <2> QED
      BY <1>1, <2>1, FS_Subset
  <1>3. ASSUME NEW p
        PROVE  /\ IsFiniteSet(VivosDeClave(p))
               /\ IsFiniteSet(Llamando({"cuota", "insertar"}, p))
    <2>1. VivosDeClave(p) \subseteq Ids /\ Llamando({"cuota", "insertar"}, p) \subseteq Solicitantes
      BY DEF VivosDeClave, Llamando
    <2> QED
      BY <1>1, <2>1, FS_Subset
  <1> QED
    BY <1>1, <1>2, <1>3

LEMMA Tamanos ==
    /\ Cardinality(Solicitantes) \in Nat /\ Cardinality(Consumidores) \in Nat
    /\ MaxActivos \in Nat /\ TopeClave \in Int /\ TopeCuota \in Int
    /\ Cardinality(Consumidores) >= 1
  <1>1. /\ Cardinality(Solicitantes) \in Nat /\ Cardinality(Consumidores) \in Nat
        /\ MaxActivos \in Nat
    BY Finitos, FS_CardinalityType, EncoladoAssumption
  <1>2. Cardinality(Consumidores) # 0
    BY Finitos, FS_EmptySet, EncoladoAssumption
  <1> QED
    BY <1>1, <1>2 DEF TopeClave, TopeCuota

(* Closed rows that a consumer may still reopen are fewer than consumers. *)
LEMMA PocosReabribles ==
    ASSUME EncoladoTypeOK, AlgunoAlDia, NEW S, S \subseteq Ids,
           \A j \in S : Vivo(j) /\ jobs[j].estado \notin Activos
    PROVE  Cardinality(S) \in Nat /\ Cardinality(S) <= Cardinality(Consumidores) - 1
  <1>1. PICK v \in Consumidores : ~Devolveria(v) \/ jobs[toma[v].fila].estado \in Activos
    BY EncoladoAssumption DEF AlgunoAlDia
  <1> DEFINE X == { w \in Consumidores \ {v} : toma[w].fila \in S }
             f == [w \in X |-> toma[w].fila]
  <1>2. \A j \in S : \E w \in X : f[w] = j
    <2>1. ASSUME NEW j \in S PROVE \E w \in X : f[w] = j
      <3>1. PICK w \in Consumidores : Devolveria(w) /\ toma[w].fila = j
        BY <2>1 DEF Vivo
      <3>2. w # v
        BY <1>1, <2>1, <3>1
      <3> QED
        BY <2>1, <3>1, <3>2
    <2> QED
      BY <2>1
  <1>3. f \in Surjection(X, S)
    <2>1. f \in [X -> S]
      OBVIOUS
    <2> QED
      BY <1>2, <2>1 DEF Surjection
  <1>4. /\ IsFiniteSet(Consumidores \ {v})
        /\ Cardinality(Consumidores \ {v}) = Cardinality(Consumidores) - 1
    BY Finitos, FS_RemoveElement
  <1>5. X \subseteq Consumidores \ {v}
    OBVIOUS
  <1> HIDE DEF X, f
  <1>6. IsFiniteSet(X) /\ Cardinality(X) <= Cardinality(Consumidores) - 1
    BY <1>4, <1>5, FS_Subset
  <1>7. IsFiniteSet(S) /\ Cardinality(S) <= Cardinality(X)
    BY <1>3, <1>6, FS_Surjection
  <1>8. /\ Cardinality(S) \in Nat /\ Cardinality(X) \in Nat
        /\ Cardinality(Consumidores) \in Nat
    BY <1>6, <1>7, FS_CardinalityType, Tamanos
  <1> QED
    BY <1>6, <1>7, <1>8

-----------------------------------------------------------------------------
(* What the statements do to a row. *)
LEMMA TomadaEs ==
    ASSUME NEW f \in Fila, NEW w \in Consumidores
    PROVE  /\ Tomada(f, w) \in Fila /\ Tomada(f, w).estado = "running"
           /\ Tomada(f, w).tipo = f.tipo /\ Tomada(f, w).intentos = f.intentos + 1
  <1>1. f.intentos + 1 \in Nat
    BY DEF Fila
  <1> DEFINE n == f.intentos + 1
             g == [f EXCEPT !.estado = "running", !.intentos = n, !.locked_by = w,
                            !.silencio = 0]
  <1>2. Tomada(f, w) = g
    BY DEF Tomada
  <1>3. n \in Nat
    BY <1>1
  <1> HIDE DEF n
  <1>4. g \in Fila /\ g.estado = "running" /\ g.tipo = f.tipo /\ g.intentos = n
    BY <1>3 DEF Fila, Estados, Activos, Terminales
  <1> QED
    BY <1>2, <1>4 DEF n

LEMMA SueltaEs ==
    ASSUME NEW f \in Fila, NEW e \in Estados, NEW x \in Int
    PROVE  /\ Suelta(f, e, x) \in Fila /\ Suelta(f, e, x).estado = e
           /\ Suelta(f, e, x).tipo = f.tipo /\ Suelta(f, e, x).intentos = f.intentos
  BY DEF Suelta, Fila

LEMMA InsertarEs ==
    ASSUME EncoladoTypeOK, NEW j \in Ids, NEW t \in Tipos, Insertar(j, t)
    PROVE  /\ TablaTypeOK' /\ jobs[j].estado = "ausente"
           /\ jobs'[j].estado = "pending" /\ jobs'[j].tipo = t
           /\ \A k \in Ids \ {j} : jobs'[k] = jobs[k]
  <1> DEFINE g == [jobs[j] EXCEPT !.estado = "pending", !.tipo = t]
  <1>1. jobs' = [jobs EXCEPT ![j] = g] /\ jobs[j].estado = "ausente"
    BY DEF Insertar
  <1>2. jobs[j] \in Fila
    BY DEF EncoladoTypeOK, TablaTypeOK
  <1>3. g \in Fila /\ g.estado = "pending" /\ g.tipo = t
    BY <1>2 DEF Fila, Estados, Activos
  <1> HIDE DEF g
  <1> QED
    BY <1>1, <1>3 DEF EncoladoTypeOK, TablaTypeOK

(* What a consumer or the sweep does makes no row alive that was not: it   *)
(* is of the type it was, and is not a new one.                            *)
Igual(j) == /\ jobs'[j].tipo = jobs[j].tipo
            /\ Vivo(j)' => Vivo(j)
            /\ jobs[j].estado # "ausente" => jobs'[j].estado # "ausente"

Consume == (\E w \in Consumidores : Coger(w) \/ Cierre(w) \/ SinCerrar(w)) \/ Caducan

Consumido ==
    /\ TablaTypeOK' /\ toma' \in [Consumidores -> Toma]
    /\ TomaExiste' /\ AlgunoAlDia'
    /\ \A j \in Ids : Igual(j)

LEMMA TomaSale ==
    ASSUME EncoladoTypeOK, NEW w \in Consumidores,
           toma' = [toma EXCEPT ![w] = NoToma]
    PROVE  /\ toma' \in [Consumidores -> Toma]
           /\ toma'[w].fila = 0 /\ ~Devolveria(w)' /\ AlgunoAlDia'
           /\ \A u \in Consumidores \ {w} : toma'[u] = toma[u]
  <1>1. NoToma \in Toma /\ NoToma.fila = 0
    BY DEF NoToma, Toma
  <1>2. /\ toma' \in [Consumidores -> Toma] /\ toma'[w].fila = 0
        /\ \A u \in Consumidores \ {w} : toma'[u] = toma[u]
    BY <1>1 DEF EncoladoTypeOK
  <1>3. ~Devolveria(w)'
    BY <1>2 DEF Devolveria
  <1> QED
    BY <1>2, <1>3 DEF AlgunoAlDia

LEMMA CogerEs ==
    ASSUME EncoladoTypeOK, TomaExiste, NEW w \in Consumidores, Coger(w)
    PROVE  Consumido
  <1>1. PICK j \in Reclamables(Tipos) :
           /\ jobs' = [jobs EXCEPT ![j] = Tomada(jobs[j], w)]
           /\ toma' = [toma EXCEPT ![w] = [fila |-> j, intentos |-> jobs[j].intentos + 1]]
    BY DEF Coger
  <1>2. j \in Ids /\ jobs[j] \in Fila /\ jobs[j].estado = "pending"
    BY DEF Reclamables, EncoladoTypeOK, TablaTypeOK
  <1> DEFINE n == jobs[j].intentos + 1
             x == [fila |-> j, intentos |-> n]
             g == Tomada(jobs[j], w)
  <1>3. n \in Nat
    BY <1>2 DEF Fila
  <1>4. /\ g \in Fila /\ g.estado = "running" /\ g.tipo = jobs[j].tipo /\ g.intentos = n
    BY <1>2, TomadaEs
  <1>5. jobs' = [jobs EXCEPT ![j] = g] /\ toma' = [toma EXCEPT ![w] = x]
    BY <1>1
  <1> HIDE DEF n, g
  <1>6. x \in Toma /\ x.fila = j /\ x.intentos = n
    BY <1>2, <1>3 DEF Toma
  <1> HIDE DEF x
  <1>7. /\ TablaTypeOK' /\ jobs'[j] = g /\ \A k \in Ids \ {j} : jobs'[k] = jobs[k]
        /\ toma' \in [Consumidores -> Toma] /\ toma'[w] = x
        /\ \A u \in Consumidores \ {w} : toma'[u] = toma[u]
    BY <1>2, <1>4, <1>5, <1>6 DEF EncoladoTypeOK, TablaTypeOK
  <1>8. TomaExiste'
    <2>1. ASSUME NEW u \in Consumidores, toma'[u].fila # 0
          PROVE  jobs'[toma'[u].fila].estado # "ausente"
      <3>1. CASE u = w
        BY <1>4, <1>6, <1>7, <3>1
      <3>2. CASE u # w
        <4>1. toma'[u] = toma[u] /\ toma[u].fila \in Ids
          BY <1>7, <2>1, <3>2 DEF EncoladoTypeOK, Toma
        <4>2. jobs[toma[u].fila].estado # "ausente"
          BY <2>1, <4>1 DEF TomaExiste
        <4> QED
          BY <1>4, <1>7, <4>1, <4>2
      <3> QED
        BY <3>1, <3>2
    <2> QED
      BY <2>1 DEF TomaExiste
  <1>9. AlgunoAlDia'
    <2>1. /\ jobs'[toma'[w].fila].estado \in Activos
          /\ jobs'[toma'[w].fila].intentos = toma'[w].intentos
      BY <1>4, <1>6, <1>7 DEF Activos
    <2> QED
      BY <2>1 DEF AlgunoAlDia, Devolveria
  <1>10. ASSUME NEW k \in Ids PROVE Igual(k)
    <2>1. CASE k = j
      BY <1>2, <1>4, <1>7, <2>1 DEF Igual, Vivo, Activos
    <2>2. CASE k # j
      <3>1. jobs'[k] = jobs[k]
        BY <1>7, <2>2
      <3>2. ASSUME NEW u \in Consumidores, Devolveria(u)', toma'[u].fila = k
            PROVE  Devolveria(u) /\ toma[u].fila = k
        <4>1. u # w
          BY <1>6, <1>7, <2>2, <3>2
        <4> QED
          BY <1>7, <3>2, <4>1 DEF Devolveria
      <3> QED
        BY <3>1, <3>2 DEF Igual, Vivo
    <2> QED
      BY <2>1, <2>2
  <1> QED
    BY <1>7, <1>8, <1>9, <1>10 DEF Consumido

LEMMA CierreEs ==
    ASSUME EncoladoTypeOK, TomaExiste, NEW w \in Consumidores, Cierre(w)
    PROVE  Consumido
  <1> DEFINE j == toma[w].fila
  <1>1. /\ j \in Ids /\ jobs[j] \in Fila /\ jobs[j].estado # "ausente"
        /\ toma' = [toma EXCEPT ![w] = NoToma]
    BY DEF Cierre, EncoladoTypeOK, TablaTypeOK, Toma, TomaExiste
  <1>2. PICK e \in {"done", "failed", "pending"} :
           jobs' = [jobs EXCEPT ![j] = Suelta(jobs[j], e, 0)]
           /\ (e = "pending" => Devolveria(w))
    <2>1. \/ Cerrar(j, "done", 0)
          \/ Cerrar(j, "failed", 0)
          \/ Cerrar(j, "pending", 0) /\ ~(toma[w].intentos >= MaxIntentos)
      BY DEF Cierre, MarcarTerminado, MarcarFallido, Reprogramar
    <2>2. ~(toma[w].intentos >= MaxIntentos) => Devolveria(w)
      BY TablaAssumption DEF Devolveria, Cierre, EncoladoTypeOK, Toma
    <2> QED
      BY <2>1, <2>2 DEF Cerrar
  <1> DEFINE g == Suelta(jobs[j], e, 0)
  <1>3. e \in Estados /\ e # "ausente"
    BY DEF Estados, Activos, Terminales
  <1>4. g \in Fila /\ g.estado = e /\ g.tipo = jobs[j].tipo
    BY <1>1, <1>3, SueltaEs
  <1>5. jobs' = [jobs EXCEPT ![j] = g]
    BY <1>2
  <1> HIDE DEF g
  <1>6. TablaTypeOK' /\ jobs'[j] = g /\ \A k \in Ids \ {j} : jobs'[k] = jobs[k]
    BY <1>1, <1>4, <1>5 DEF EncoladoTypeOK, TablaTypeOK
  <1>7. /\ toma' \in [Consumidores -> Toma]
        /\ toma'[w].fila = 0 /\ ~Devolveria(w)' /\ AlgunoAlDia'
        /\ \A u \in Consumidores \ {w} : toma'[u] = toma[u]
    BY <1>1, TomaSale
  <1>8. ASSUME NEW k \in Ids PROVE Igual(k)
    <2>1. ASSUME NEW u \in Consumidores, Devolveria(u)', toma'[u].fila = k
          PROVE  Devolveria(u) /\ toma[u].fila = k
      <3>1. u # w
        BY <1>7, <2>1
      <3> QED
        BY <1>7, <2>1, <3>1 DEF Devolveria
    <2>2. CASE k = j
      <3>1. jobs'[k].estado \in Activos => e = "pending"
        BY <1>4, <1>6, <2>2 DEF Activos
      <3>2. Vivo(k)' => Vivo(k)
        BY <1>2, <2>1, <2>2, <3>1 DEF Vivo
      <3> QED
        BY <1>3, <1>4, <1>6, <2>2, <3>2 DEF Igual
    <2>3. CASE k # j
      BY <1>6, <2>1, <2>3 DEF Igual, Vivo
    <2> QED
      BY <2>2, <2>3
  <1>9. TomaExiste'
    BY <1>7, <1>8 DEF TomaExiste, Igual, EncoladoTypeOK, Toma
  <1> QED
    BY <1>6, <1>7, <1>8, <1>9 DEF Consumido

LEMMA SinCerrarEs ==
    ASSUME EncoladoTypeOK, TomaExiste, NEW w \in Consumidores, SinCerrar(w)
    PROVE  Consumido
  <1>1. jobs' = jobs /\ toma' = [toma EXCEPT ![w] = NoToma]
    BY DEF SinCerrar
  <1>2. /\ toma' \in [Consumidores -> Toma]
        /\ toma'[w].fila = 0 /\ ~Devolveria(w)' /\ AlgunoAlDia'
        /\ \A u \in Consumidores \ {w} : toma'[u] = toma[u]
    BY <1>1, TomaSale
  <1>3. ASSUME NEW k \in Ids PROVE Igual(k)
    <2>1. ASSUME NEW u \in Consumidores, Devolveria(u)', toma'[u].fila = k
          PROVE  Devolveria(u) /\ toma[u].fila = k
      <3>1. u # w
        BY <1>2, <2>1
      <3> QED
        BY <1>2, <2>1, <3>1 DEF Devolveria
    <2> QED
      BY <1>1, <2>1 DEF Igual, Vivo
  <1>4. TomaExiste'
    BY <1>1, <1>2 DEF TomaExiste
  <1> QED
    BY <1>1, <1>2, <1>3, <1>4 DEF Consumido, EncoladoTypeOK, TablaTypeOK

LEMMA CaducanEs ==
    ASSUME EncoladoTypeOK, TomaExiste, AlgunoAlDia, Caducan
    PROVE  Consumido
  <1>1. PICK C \in SUBSET { j \in Ids : jobs[j].estado = "running" } :
           jobs' = [j \in Ids |-> IF j \in C THEN Barrida(jobs[j]) ELSE jobs[j]]
    BY DEF Caducan
  <1>2. toma' = toma
    BY DEF Caducan
  <1>3. ASSUME NEW j \in Ids
        PROVE  /\ jobs'[j] \in Fila /\ jobs'[j].tipo = jobs[j].tipo
               /\ jobs'[j].intentos = jobs[j].intentos
               /\ j \notin C => jobs'[j] = jobs[j]
               /\ j \in C => /\ jobs[j].estado = "running"
                            /\ jobs'[j].estado \in {"failed", "pending"}
                            /\ (jobs[j].intentos < MaxIntentos => jobs'[j].estado = "pending")
    <2>1. jobs[j] \in Fila
      BY DEF EncoladoTypeOK, TablaTypeOK
    <2>2. "failed" \in Estados /\ "pending" \in Estados /\ jobs[j].espera \in Int /\ 0 \in Int
      BY <2>1 DEF Estados, Activos, Terminales, Fila
    <2> DEFINE h == Barrida(jobs[j])
    <2>3. /\ h \in Fila /\ h.tipo = jobs[j].tipo /\ h.intentos = jobs[j].intentos
          /\ h.estado \in {"failed", "pending"}
          /\ jobs[j].intentos < MaxIntentos => h.estado = "pending"
      <3>1. CASE jobs[j].intentos >= MaxIntentos
        <4>1. h = Suelta(jobs[j], "failed", 0)
          BY <3>1 DEF Barrida
        <4>2. ~(jobs[j].intentos < MaxIntentos)
          BY <2>1, <3>1, TablaAssumption DEF Fila
        <4> QED
          BY <2>1, <2>2, <4>1, <4>2, SueltaEs
      <3>2. CASE ~(jobs[j].intentos >= MaxIntentos)
        <4>1. h = Suelta(jobs[j], "pending", jobs[j].espera)
          BY <3>2 DEF Barrida
        <4> QED
          BY <2>1, <2>2, <4>1, SueltaEs
      <3> QED
        BY <3>1, <3>2
    <2>4. jobs'[j] = IF j \in C THEN h ELSE jobs[j]
      BY <1>1
    <2> HIDE DEF h
    <2>5. CASE j \in C
      BY <2>3, <2>4, <2>5
    <2>6. CASE j \notin C
      BY <2>1, <2>4, <2>6
    <2> QED
      BY <2>5, <2>6
  <1>4. TablaTypeOK'
    BY <1>1, <1>3 DEF TablaTypeOK
  <1>5. ASSUME NEW k \in Ids PROVE Igual(k)
    <2>1. jobs'[k].estado \in Activos => jobs[k].estado \in Activos
      BY <1>3 DEF Activos
    <2>2. jobs[k].estado # "ausente" => jobs'[k].estado # "ausente"
      BY <1>3
    <2> QED
      BY <1>2, <1>3, <2>1, <2>2 DEF Igual, Vivo, Devolveria
  <1>6. AlgunoAlDia'
    <2> SUFFICES ASSUME \A w \in Consumidores : Devolveria(w)'
                 PROVE  \E w \in Consumidores : /\ jobs'[toma'[w].fila].estado \in Activos
                                                /\ jobs'[toma'[w].fila].intentos < MaxIntentos
      BY DEF AlgunoAlDia
    <2>1. \A w \in Consumidores : Devolveria(w)
      BY <1>2 DEF Devolveria
    <2>2. PICK w \in Consumidores : /\ jobs[toma[w].fila].estado \in Activos
                                   /\ jobs[toma[w].fila].intentos < MaxIntentos
      BY <2>1 DEF AlgunoAlDia
    <2>3. toma[w].fila \in Ids
      BY <2>1 DEF Devolveria, EncoladoTypeOK, Toma
    <2> QED
      BY <1>2, <1>3, <2>2, <2>3 DEF Activos
  <1>7. TomaExiste'
    BY <1>2, <1>5 DEF TomaExiste, Igual, EncoladoTypeOK, Toma
  <1> QED
    BY <1>2, <1>4, <1>5, <1>6, <1>7 DEF Consumido, EncoladoTypeOK

LEMMA ConsumirEs ==
    ASSUME EncoladoTypeOK, TomaExiste, AlgunoAlDia, Consume
    PROVE  Consumido /\ llamada' = llamada /\ carga' = carga
  BY CogerEs, CierreEs, SinCerrarEs, CaducanEs
     DEF Consume, Coger, Cierre, SinCerrar, Caducan

-----------------------------------------------------------------------------
(* What each step does to the calls. *)
Otras(s) == \A q \in Solicitantes \ {s} : llamada'[q] = llamada[q]

LEMMA NoPideEs == NoPide \in Peticion
  BY TablaAssumption DEF NoPide, Peticion, Carga

LEMMA BuscarEs ==
    ASSUME EncoladoTypeOK, NEW s \in Solicitantes, Buscar(s)
    PROVE  /\ llamada' \in [Solicitantes -> Llamada] /\ Otras(s)
           /\ jobs' = jobs /\ carga' = carga /\ toma' = toma
           /\ \E p \in Peticion :
                /\ llamada'[s].pide = p
                /\ \/ /\ llamada'[s].fase = "libre" /\ Repetida(p)
                      /\ llamada'[s].id = Primero(Equivalentes(p))
                   \/ /\ ~Repetida(p) /\ llamada'[s].id = 0
                      /\ llamada'[s].fase = IF ConCuota(p) THEN "cuota" ELSE "insertar"
  <1>1. PICK p \in Peticion :
         llamada' = [llamada EXCEPT ![s] =
               [ fase |-> IF Repetida(p) THEN "libre"
                          ELSE IF ConCuota(p) THEN "cuota" ELSE "insertar",
                 pide |-> p,
                 id   |-> IF Repetida(p) THEN Primero(Equivalentes(p)) ELSE 0 ]]
    BY EncoladoAssumption DEF Buscar
  <1> DEFINE g == IF Repetida(p) THEN "libre" ELSE IF ConCuota(p) THEN "cuota" ELSE "insertar"
             i == IF Repetida(p) THEN Primero(Equivalentes(p)) ELSE 0
             x == [fase |-> g, pide |-> p, id |-> i]
  <1>2. llamada' = [llamada EXCEPT ![s] = x]
    BY <1>1
  <1>3. g \in {"libre", "cuota", "insertar"}
    OBVIOUS
  <1>4. i \in Ids \union {0}
    <2>1. Equivalentes(p) \subseteq Ids
      BY DEF Equivalentes
    <2>2. Repetida(p) => Primero(Equivalentes(p)) \in Equivalentes(p)
      BY <2>1, PrimeroEs DEF Repetida
    <2> QED
      BY <2>1, <2>2
  <1>5. \/ g = "libre" /\ Repetida(p) /\ i = Primero(Equivalentes(p))
        \/ ~Repetida(p) /\ i = 0 /\ g = IF ConCuota(p) THEN "cuota" ELSE "insertar"
    OBVIOUS
  <1> HIDE DEF g, i
  <1>6. x \in Llamada /\ x.fase = g /\ x.pide = p /\ x.id = i
    BY <1>3, <1>4 DEF Llamada
  <1> HIDE DEF x
  <1>7. llamada' \in [Solicitantes -> Llamada] /\ Otras(s) /\ llamada'[s] = x
    BY <1>2, <1>6 DEF EncoladoTypeOK, Otras
  <1> QED
    BY <1>5, <1>6, <1>7 DEF Buscar

LEMMA ContarEs ==
    ASSUME EncoladoTypeOK, NEW s \in Solicitantes, Contar(s)
    PROVE  /\ llamada' \in [Solicitantes -> Llamada] /\ Otras(s)
           /\ jobs' = jobs /\ carga' = carga /\ toma' = toma /\ llamada[s].fase = "cuota"
           /\ llamada'[s].pide = llamada[s].pide /\ llamada'[s].id = llamada[s].id
           /\ llamada'[s].fase = IF Excede(llamada[s].pide) THEN "libre" ELSE "insertar"
  <1> DEFINE g == IF Excede(llamada[s].pide) THEN "libre" ELSE "insertar"
             x == [llamada[s] EXCEPT !.fase = g]
  <1>1. llamada' = [llamada EXCEPT ![s] = x] /\ llamada[s] \in Llamada
    BY DEF Contar, EncoladoTypeOK
  <1>2. g \in {"libre", "cuota", "insertar"}
    OBVIOUS
  <1> HIDE DEF g
  <1>3. x \in Llamada /\ x.fase = g /\ x.pide = llamada[s].pide /\ x.id = llamada[s].id
    BY <1>1, <1>2 DEF Llamada
  <1> HIDE DEF x
  <1>4. llamada' \in [Solicitantes -> Llamada] /\ Otras(s) /\ llamada'[s] = x
    BY <1>1, <1>3 DEF EncoladoTypeOK, Otras
  <1> QED
    BY <1>3, <1>4 DEF Contar, g

LEMMA EncolarEs ==
    ASSUME EncoladoTypeOK, NEW s \in Solicitantes, Crear(s)
    PROVE  /\ llamada' \in [Solicitantes -> Llamada] /\ Otras(s) /\ TablaTypeOK'
           /\ llamada[s].fase = "insertar" /\ llamada'[s].fase = "libre"
           /\ llamada'[s].pide = llamada[s].pide /\ llamada[s].pide \in Peticion
           /\ carga' \in [Ids -> Carga] /\ toma' = toma
           /\ \E j \in Ids :
                /\ llamada'[s].id = j /\ jobs[j].estado = "ausente"
                /\ jobs'[j].estado = "pending" /\ jobs'[j].tipo = llamada[s].pide.tipo
                /\ carga'[j] = llamada[s].pide.carga
                /\ \A k \in Ids \ {j} : jobs'[k] = jobs[k] /\ carga'[k] = carga[k]
  <1>1. llamada[s] \in Llamada /\ llamada[s].fase = "insertar"
    BY DEF Crear, EncoladoTypeOK
  <1>2. llamada[s].pide \in Peticion /\ llamada[s].pide.tipo \in Tipos
        /\ llamada[s].pide.carga \in Carga
    BY <1>1 DEF Llamada, Peticion
  <1>3. PICK j \in Ids :
           /\ Insertar(j, llamada[s].pide.tipo)
           /\ carga' = [carga EXCEPT ![j] = llamada[s].pide.carga]
           /\ llamada' = [llamada EXCEPT ![s].fase = "libre", ![s].id = j]
    BY DEF Crear
  <1> DEFINE x == [llamada[s] EXCEPT !.fase = "libre", !.id = j]
  <1>4. llamada' = [llamada EXCEPT ![s] = x]
    BY <1>3 DEF EncoladoTypeOK
  <1>5. x \in Llamada /\ x.fase = "libre" /\ x.id = j /\ x.pide = llamada[s].pide
    BY <1>1 DEF Llamada
  <1> HIDE DEF x
  <1>6. llamada' \in [Solicitantes -> Llamada] /\ Otras(s) /\ llamada'[s] = x
    BY <1>4, <1>5 DEF EncoladoTypeOK, Otras
  <1>7. /\ carga' \in [Ids -> Carga] /\ carga'[j] = llamada[s].pide.carga
        /\ \A k \in Ids \ {j} : carga'[k] = carga[k]
    BY <1>2, <1>3 DEF EncoladoTypeOK
  <1>8. /\ TablaTypeOK' /\ jobs[j].estado = "ausente"
        /\ jobs'[j].estado = "pending" /\ jobs'[j].tipo = llamada[s].pide.tipo
        /\ \A k \in Ids \ {j} : jobs'[k] = jobs[k]
    BY <1>2, <1>3, InsertarEs
  <1> QED
    BY <1>1, <1>2, <1>5, <1>6, <1>7, <1>8 DEF Crear

(* A new row disturbs no claim: the rows claimed were there.               *)
LEMMA TomasTrasCrear ==
    ASSUME EncoladoTypeOK, TomaExiste, AlgunoAlDia, NEW s \in Solicitantes, Crear(s)
    PROVE  TomaExiste' /\ AlgunoAlDia'
  <1>1. PICK j \in Ids :
           /\ jobs[j].estado = "ausente" /\ jobs'[j].estado = "pending"
           /\ \A k \in Ids \ {j} : jobs'[k] = jobs[k]
    BY EncolarEs
  <1>2. toma' = toma
    BY EncolarEs
  <1>3. ASSUME NEW w \in Consumidores, toma[w].fila # 0
        PROVE  jobs'[toma[w].fila] = jobs[toma[w].fila]
    BY <1>1, <1>3 DEF TomaExiste, EncoladoTypeOK, Toma
  <1>4. TomaExiste'
    BY <1>2, <1>3 DEF TomaExiste
  <1>5. AlgunoAlDia'
    BY <1>2, <1>3 DEF AlgunoAlDia, Devolveria
  <1> QED
    BY <1>4, <1>5

LEMMA TipoPaso ==
    ASSUME EncoladoTypeOK, TomaExiste, AlgunoAlDia, [EncoladoNext]_encoladoVars
    PROVE  EncoladoTypeOK' /\ TomaExiste' /\ AlgunoAlDia'
  <1> DEFINE Bien == EncoladoTypeOK' /\ TomaExiste' /\ AlgunoAlDia'
  <1>1. ASSUME NEW s \in Solicitantes, Buscar(s) PROVE Bien
    <2>1. llamada' \in [Solicitantes -> Llamada] /\ jobs' = jobs /\ carga' = carga /\ toma' = toma
      BY <1>1, BuscarEs
    <2> QED
      BY <2>1 DEF EncoladoTypeOK, TablaTypeOK, TomaExiste, AlgunoAlDia, Devolveria
  <1>2. ASSUME NEW s \in Solicitantes, Contar(s) PROVE Bien
    <2>1. llamada' \in [Solicitantes -> Llamada] /\ jobs' = jobs /\ carga' = carga /\ toma' = toma
      BY <1>2, ContarEs
    <2> QED
      BY <2>1 DEF EncoladoTypeOK, TablaTypeOK, TomaExiste, AlgunoAlDia, Devolveria
  <1>3. ASSUME NEW s \in Solicitantes, Crear(s) PROVE Bien
    <2>1. EncoladoTypeOK'
      BY <1>3, EncolarEs DEF EncoladoTypeOK
    <2> QED
      BY <1>3, <2>1, TomasTrasCrear
  <1>4. CASE Consume
    BY <1>4, ConsumirEs DEF EncoladoTypeOK, Consumido
  <1>5. CASE UNCHANGED encoladoVars
    BY <1>5 DEF encoladoVars, EncoladoTypeOK, TablaTypeOK, TomaExiste, AlgunoAlDia, Devolveria
  <1> QED
    BY <1>1, <1>2, <1>3, <1>4, <1>5 DEF EncoladoNext, Agotado, Consume

-----------------------------------------------------------------------------
(* The duplicates of a key. *)
LEMMA Peticiones ==
    ASSUME NEW p \in Peticion, NEW q \in Peticion, p.tipo = q.tipo,
           p.carga.org = q.carga.org, p.carga.clave = q.carga.clave
    PROVE  p = q
  <1>1. p.carga = q.carga
    BY DEF Peticion, Carga
  <1> QED
    BY <1>1 DEF Peticion

LEMMA DuplicadosPaso ==
    ASSUME EncoladoInv, [EncoladoNext]_encoladoVars, NEW p \in Peticion, p.carga.clave # SinClave
    PROVE  Cardinality(VivosDeClave(p)') + Cardinality(Llamando({"cuota", "insertar"}, p)')
             <= TopeClave
  <1> DEFINE E == VivosDeClave(p)
             L == Llamando({"cuota", "insertar"}, p)
             Bien == Cardinality(E') + Cardinality(L') <= TopeClave
  <1>1. /\ IsFiniteSet(E) /\ IsFiniteSet(L) /\ IsFiniteSet(Solicitantes)
        /\ Cardinality(E) + Cardinality(L) <= TopeClave /\ TopeClave \in Int
    BY Finitos, Tamanos DEF EncoladoInv, VivosAcotados
  <1>2. /\ L' = { s \in Solicitantes : /\ llamada'[s].fase \in {"cuota", "insertar"}
                                      /\ llamada'[s].pide = p }
        /\ E' = { j \in Ids : /\ Vivo(j)' /\ jobs'[j].tipo = p.tipo
                              /\ carga'[j].clave = p.carga.clave /\ carga'[j].org = p.carga.org }
    BY DEF Llamando, VivosDeClave
  <1>3. ASSUME E' \subseteq E, L' \subseteq L PROVE Bien
    <2>1. Cardinality(E') + Cardinality(L') <= Cardinality(E) + Cardinality(L)
      BY <1>1, <1>3, Encoge
    <2>2. IsFiniteSet(E') /\ IsFiniteSet(L')
      BY <1>1, <1>3, FS_Subset
    <2> QED
      BY <1>1, <2>1, <2>2, FS_CardinalityType
  <1>4. ASSUME NEW s \in Solicitantes, Buscar(s) PROVE Bien
    <2>1. E' = E
      BY <1>2, <1>4, BuscarEs DEF EncoladoInv, VivosDeClave, Vivo, Devolveria
    <2>2. CASE L' \subseteq L
      BY <1>3, <2>1, <2>2
    <2>3. CASE ~(L' \subseteq L)
      <3>1. llamada'[s].pide = p /\ llamada'[s].fase # "libre"
        BY <1>2, <1>4, <2>3, BuscarEs DEF EncoladoInv, Otras, Llamando
      <3>2. Equivalentes(p) = {}
        BY <1>4, <3>1, BuscarEs DEF EncoladoInv, Repetida
      <3>3. E \subseteq Ids /\ \A j \in E : Vivo(j) /\ jobs[j].estado \notin Activos
        BY <3>2 DEF VivosDeClave, Equivalentes
      <3>4. /\ Cardinality(E') \in Nat
            /\ Cardinality(E') <= Cardinality(Consumidores) - 1
        BY <2>1, <3>3, PocosReabribles DEF EncoladoInv
      <3>5. L' \subseteq Solicitantes
        BY <1>2
      <3>6. Cardinality(L') <= Cardinality(Solicitantes) /\ IsFiniteSet(L')
        BY <1>1, <3>5, FS_Subset
      <3>7. Cardinality(L') \in Nat
        BY <3>6, FS_CardinalityType
      <3> QED
        BY <3>4, <3>6, <3>7, Tamanos DEF TopeClave
    <2> QED
      BY <2>2, <2>3
  <1>5. ASSUME NEW s \in Solicitantes, Contar(s) PROVE Bien
    <2>1. E' \subseteq E /\ L' \subseteq L
      BY <1>2, <1>5, ContarEs DEF EncoladoInv, VivosDeClave, Vivo, Devolveria, Llamando, Otras
    <2> QED
      BY <1>3, <2>1
  <1>6. ASSUME NEW s \in Solicitantes, Crear(s) PROVE Bien
    <2>1. PICK j \in Ids :
             /\ jobs'[j].tipo = llamada[s].pide.tipo /\ carga'[j] = llamada[s].pide.carga
             /\ \A k \in Ids \ {j} : jobs'[k] = jobs[k] /\ carga'[k] = carga[k]
             /\ toma' = toma
      BY <1>6, EncolarEs DEF EncoladoInv
    <2>2. /\ llamada[s].pide \in Peticion /\ llamada[s].fase = "insertar" /\ Otras(s)
          /\ llamada'[s].fase = "libre"
      BY <1>6, EncolarEs DEF EncoladoInv
    <2>3. L' \subseteq L \ {s}
      BY <1>2, <2>2 DEF Llamando, Otras
    <2>4. CASE llamada[s].pide = p
      <3>1. E' \subseteq E \union {j}
        BY <1>2, <2>1 DEF VivosDeClave, Vivo, Devolveria
      <3>2. s \in L
        BY <2>2, <2>4 DEF Llamando
      <3>3. Cardinality(E') + Cardinality(L') <= Cardinality(E) + Cardinality(L)
        BY <1>1, <2>3, <3>1, <3>2, Mueve
      <3>4. IsFiniteSet(E') /\ IsFiniteSet(L')
        BY <1>1, <2>3, <3>1, FS_Subset, FS_AddElement
      <3> QED
        BY <1>1, <3>3, <3>4, FS_CardinalityType
    <2>5. CASE llamada[s].pide # p
      <3>1. j \notin E'
        BY <1>2, <2>1, <2>2, <2>5, Peticiones
      <3>2. E' \subseteq E
        BY <1>2, <2>1, <3>1 DEF VivosDeClave, Vivo, Devolveria
      <3> QED
        BY <1>3, <2>3, <3>2
    <2> QED
      BY <2>4, <2>5
  <1>7. CASE Consume
    <2>1. (\A j \in Ids : Igual(j)) /\ llamada' = llamada /\ carga' = carga
      BY <1>7, ConsumirEs DEF EncoladoInv, Consumido
    <2>2. E' \subseteq E /\ L' \subseteq L
      BY <1>2, <2>1 DEF VivosDeClave, Llamando, Igual
    <2> QED
      BY <1>3, <2>2
  <1>8. CASE UNCHANGED encoladoVars
    <2>1. E' \subseteq E /\ L' \subseteq L
      BY <1>2, <1>8 DEF encoladoVars, VivosDeClave, Vivo, Devolveria, Llamando
    <2> QED
      BY <1>3, <2>1
  <1> QED
    BY <1>4, <1>5, <1>6, <1>7, <1>8 DEF EncoladoNext, Agotado, Consume

(* The quota of an organization. *)
LEMMA CuotaPaso ==
    ASSUME EncoladoInv, [EncoladoNext]_encoladoVars, NEW t \in TiposConCuota, NEW o \in Orgs
    PROVE  Cardinality(VivosDe(t, o)') + Cardinality(Insertando(t, o)') <= TopeCuota
  <1> DEFINE A == VivosDe(t, o)
             L == Insertando(t, o)
             Bien == Cardinality(A') + Cardinality(L') <= TopeCuota
  <1>1. /\ IsFiniteSet(A) /\ IsFiniteSet(L) /\ IsFiniteSet(Solicitantes)
        /\ Cardinality(A) + Cardinality(L) <= TopeCuota /\ TopeCuota \in Int
        /\ MaxActivos \in Nat /\ Cardinality(Solicitantes) \in Nat
        /\ Cardinality(A) \in Nat /\ Cardinality(L) \in Nat
    <2>1. Cardinality(A) + Cardinality(L) <= TopeCuota
      BY DEF EncoladoInv, CuotaDeVivos
    <2>2. IsFiniteSet(A) /\ IsFiniteSet(L) /\ IsFiniteSet(Solicitantes)
      BY Finitos
    <2> QED
      BY <2>1, <2>2, FS_CardinalityType, Tamanos
  <1>2. /\ L' = { s \in Solicitantes : /\ llamada'[s].fase = "insertar"
                                      /\ llamada'[s].pide.tipo = t
                                      /\ llamada'[s].pide.carga.org = o }
        /\ A' = { j \in Ids : /\ Vivo(j)' /\ jobs'[j].tipo = t
                              /\ carga'[j].org = o }
    BY DEF Insertando, VivosDe
  <1>3. ASSUME A' \subseteq A, L' \subseteq L PROVE Bien
    <2>1. Cardinality(A') + Cardinality(L') <= Cardinality(A) + Cardinality(L)
      BY <1>1, <1>3, Encoge
    <2>2. IsFiniteSet(A') /\ IsFiniteSet(L')
      BY <1>1, <1>3, FS_Subset
    <2>3. Cardinality(A') \in Nat /\ Cardinality(L') \in Nat
      BY <2>2, FS_CardinalityType
    <2> QED
      BY <1>1, <2>1, <2>3
  <1>4. ASSUME NEW s \in Solicitantes, Buscar(s) PROVE Bien
    <2>1. A' \subseteq A
      BY <1>2, <1>4, BuscarEs DEF EncoladoInv, VivosDe, Vivo, Devolveria
    <2>2. s \notin L'
      <3>1. PICK p \in Peticion :
               /\ llamada'[s].pide = p
               /\ \/ llamada'[s].fase = "libre"
                  \/ llamada'[s].fase = IF ConCuota(p) THEN "cuota" ELSE "insertar"
        BY <1>4, BuscarEs DEF EncoladoInv
      <3>2. (p.tipo = t /\ p.carga.org = o) => ConCuota(p)
        BY EncoladoAssumption DEF ConCuota
      <3> QED
        BY <1>2, <3>1, <3>2
    <2>3. L' \subseteq L
      BY <1>2, <1>4, <2>2, BuscarEs DEF EncoladoInv, Otras, Insertando
    <2> QED
      BY <1>3, <2>1, <2>3
  <1>5. ASSUME NEW s \in Solicitantes, Contar(s) PROVE Bien
    <2>1. A' = A
      BY <1>2, <1>5, ContarEs DEF EncoladoInv, VivosDe, Vivo, Devolveria
    <2>2. CASE s \notin L'
      <3>1. L' \subseteq L
        BY <1>2, <1>5, <2>2, ContarEs DEF EncoladoInv, Otras, Insertando
      <3> QED
        BY <1>3, <2>1, <3>1
    <2>3. CASE s \in L'
      <3>1. /\ ~Excede(llamada[s].pide) /\ llamada[s].pide.tipo = t
            /\ llamada[s].pide.carga.org = o
        BY <1>2, <1>5, <2>3, ContarEs DEF EncoladoInv
      <3>2. ~(Cardinality(ActivosDe(t, o)) >= MaxActivos)
        BY <3>1 DEF Excede
      <3> DEFINE B == ActivosDe(t, o)
                 S == A \ B
      <3>3. S \subseteq Ids /\ \A j \in S : Vivo(j) /\ jobs[j].estado \notin Activos
        BY DEF VivosDe, ActivosDe
      <3>4. B \subseteq A /\ A = B \union S
        BY DEF VivosDe, ActivosDe, Vivo
      <3> HIDE DEF B, S
      <3>5. Cardinality(S) \in Nat /\ Cardinality(S) <= Cardinality(Consumidores) - 1
        BY <3>3, PocosReabribles DEF EncoladoInv
      <3>6. Cardinality(B) \in Nat /\ IsFiniteSet(B) /\ IsFiniteSet(S)
        <4>1. IsFiniteSet(B) /\ IsFiniteSet(S)
          BY <1>1, <3>4, FS_Subset
        <4> QED
          BY <4>1, FS_CardinalityType
      <3>7. Cardinality(A) <= Cardinality(B) + Cardinality(S)
        <4>1. Cardinality(B \union S) = Cardinality(B) + Cardinality(S) - Cardinality(B \cap S)
          BY <3>6, FS_Union
        <4>2. Cardinality(B \cap S) \in Nat
          BY <3>6, FS_Intersection, FS_CardinalityType
        <4> QED
          BY <3>4, <3>5, <3>6, <4>1, <4>2
      <3>8. L' \subseteq Solicitantes
        BY <1>2
      <3>9. Cardinality(L') <= Cardinality(Solicitantes) /\ Cardinality(L') \in Nat
        BY <1>1, <3>8, FS_Subset, FS_CardinalityType
      <3>10. ~(Cardinality(B) >= MaxActivos)
        BY <3>2 DEF B
      <3> QED
        BY <1>1, <2>1, <3>5, <3>6, <3>7, <3>9, <3>10, Tamanos DEF TopeCuota
    <2> QED
      BY <2>2, <2>3
  <1>6. ASSUME NEW s \in Solicitantes, Crear(s) PROVE Bien
    <2>1. PICK j \in Ids :
             /\ jobs'[j].tipo = llamada[s].pide.tipo /\ carga'[j] = llamada[s].pide.carga
             /\ \A k \in Ids \ {j} : jobs'[k] = jobs[k] /\ carga'[k] = carga[k]
             /\ toma' = toma
      BY <1>6, EncolarEs DEF EncoladoInv
    <2>2. llamada[s].fase = "insertar" /\ Otras(s) /\ llamada'[s].fase = "libre"
      BY <1>6, EncolarEs DEF EncoladoInv
    <2>3. L' \subseteq L \ {s}
      BY <1>2, <2>2 DEF Insertando, Otras
    <2>4. CASE s \in L
      <3>1. A' \subseteq A \union {j}
        BY <1>2, <2>1 DEF VivosDe, Vivo, Devolveria
      <3>2. Cardinality(A') + Cardinality(L') <= Cardinality(A) + Cardinality(L)
        BY <1>1, <2>3, <2>4, <3>1, Mueve
      <3>3. IsFiniteSet(A') /\ IsFiniteSet(L')
        BY <1>1, <2>3, <3>1, FS_Subset, FS_AddElement
      <3>4. Cardinality(A') \in Nat /\ Cardinality(L') \in Nat
        BY <3>3, FS_CardinalityType
      <3> QED
        BY <1>1, <3>2, <3>4
    <2>5. CASE s \notin L
      <3>1. j \notin A'
        BY <1>2, <2>1, <2>2, <2>5 DEF Insertando
      <3>2. A' \subseteq A
        BY <1>2, <2>1, <3>1 DEF VivosDe, Vivo, Devolveria
      <3> QED
        BY <1>3, <2>3, <3>2
    <2> QED
      BY <2>4, <2>5
  <1>7. CASE Consume
    <2>1. (\A j \in Ids : Igual(j)) /\ llamada' = llamada /\ carga' = carga
      BY <1>7, ConsumirEs DEF EncoladoInv, Consumido
    <2>2. A' \subseteq A /\ L' \subseteq L
      BY <1>2, <2>1 DEF VivosDe, Insertando, Igual
    <2> QED
      BY <1>3, <2>2
  <1>8. CASE UNCHANGED encoladoVars
    <2>1. A' \subseteq A /\ L' \subseteq L
      BY <1>2, <1>8 DEF encoladoVars, VivosDe, Vivo, Devolveria, Insertando
    <2> QED
      BY <1>3, <2>1
  <1> QED
    BY <1>4, <1>5, <1>6, <1>7, <1>8 DEF EncoladoNext, Agotado, Consume

(* The id a caller has.  Rows keep their type and payload for good. *)
LEMMA DevuelvePaso ==
    ASSUME EncoladoInv, [EncoladoNext]_encoladoVars
    PROVE  DevuelveLoSuyo'
  <1> SUFFICES ASSUME NEW s \in Solicitantes, llamada'[s].id # 0
               PROVE  /\ jobs'[llamada'[s].id].estado # "ausente"
                      /\ jobs'[llamada'[s].id].tipo = llamada'[s].pide.tipo
                      /\ carga'[llamada'[s].id] = llamada'[s].pide.carga
    BY DEF DevuelveLoSuyo
  <1> DEFINE Bien == /\ jobs'[llamada'[s].id].estado # "ausente"
                     /\ jobs'[llamada'[s].id].tipo = llamada'[s].pide.tipo
                     /\ carga'[llamada'[s].id] = llamada'[s].pide.carga
             i == llamada[s].id
  <1>1. /\ i \in Ids \union {0}
        /\ i # 0 => /\ jobs[i].estado # "ausente" /\ jobs[i].tipo = llamada[s].pide.tipo
                    /\ carga[i] = llamada[s].pide.carga
    BY DEF EncoladoInv, EncoladoTypeOK, Llamada, DevuelveLoSuyo
  <1>3. ASSUME NEW q \in Solicitantes, Buscar(q) PROVE Bien
    <2>1. jobs' = jobs /\ carga' = carga /\ Otras(q)
      BY <1>3, BuscarEs DEF EncoladoInv
    <2>2. CASE q = s
      <3>1. PICK p \in Peticion :
               /\ llamada'[s].pide = p /\ Repetida(p)
               /\ llamada'[s].id = Primero(Equivalentes(p))
        BY <1>3, <2>2, BuscarEs DEF EncoladoInv
      <3>2. Equivalentes(p) \subseteq Ids /\ Equivalentes(p) # {}
        BY <3>1 DEF Equivalentes, Repetida
      <3>3. Primero(Equivalentes(p)) \in Equivalentes(p)
        BY <3>2, PrimeroEs
      <3> DEFINE k == Primero(Equivalentes(p))
      <3>4. /\ k \in Ids /\ jobs[k].estado \in Activos /\ jobs[k].tipo = p.tipo
            /\ carga[k].clave = p.carga.clave /\ carga[k].org = p.carga.org
        BY <3>3 DEF Equivalentes
      <3>5. carga[k] = p.carga
        <4>1. carga[k] \in Carga /\ p.carga \in Carga
          BY <3>4 DEF EncoladoInv, EncoladoTypeOK, Peticion
        <4> QED
          BY <3>4, <4>1 DEF Carga
      <3> QED
        BY <2>1, <3>1, <3>4, <3>5 DEF Activos
    <2>3. CASE q # s
      BY <1>1, <2>1, <2>3 DEF Otras
    <2> QED
      BY <2>2, <2>3
  <1>4. ASSUME NEW q \in Solicitantes, Contar(q) PROVE Bien
    <2>1. jobs' = jobs /\ carga' = carga /\ Otras(q)
          /\ llamada'[q].pide = llamada[q].pide /\ llamada'[q].id = llamada[q].id
      BY <1>4, ContarEs DEF EncoladoInv
    <2> QED
      BY <1>1, <2>1 DEF Otras
  <1>5. ASSUME NEW q \in Solicitantes, Crear(q) PROVE Bien
    <2>1. PICK j \in Ids :
             /\ llamada'[q].id = j /\ jobs[j].estado = "ausente"
             /\ jobs'[j].estado = "pending" /\ jobs'[j].tipo = llamada[q].pide.tipo
             /\ carga'[j] = llamada[q].pide.carga
             /\ \A k \in Ids \ {j} : jobs'[k] = jobs[k] /\ carga'[k] = carga[k]
      BY <1>5, EncolarEs DEF EncoladoInv
    <2>2. Otras(q) /\ llamada'[q].pide = llamada[q].pide
      BY <1>5, EncolarEs DEF EncoladoInv
    <2>3. CASE q = s
      BY <2>1, <2>2, <2>3
    <2>4. CASE q # s
      <3>1. llamada'[s] = llamada[s]
        BY <2>2, <2>4 DEF Otras
      <3>2. i # j
        BY <1>1, <2>1, <3>1
      <3> QED
        BY <1>1, <2>1, <3>1, <3>2
    <2> QED
      BY <2>3, <2>4
  <1>6. CASE Consume
    <2>1. (\A j \in Ids : Igual(j)) /\ llamada' = llamada /\ carga' = carga
      BY <1>6, ConsumirEs DEF EncoladoInv, Consumido
    <2> QED
      BY <1>1, <2>1 DEF Igual
  <1>7. CASE UNCHANGED encoladoVars
    BY <1>1, <1>7 DEF encoladoVars
  <1> QED
    BY <1>3, <1>4, <1>5, <1>6, <1>7 DEF EncoladoNext, Agotado, Consume

-----------------------------------------------------------------------------
LEMMA EncoladoInicio == EncoladoInit => EncoladoInv
  <1> SUFFICES ASSUME EncoladoInit PROVE EncoladoInv
    OBVIOUS
  <1>1. \A s \in Solicitantes : /\ llamada[s].fase = "libre" /\ llamada[s].id = 0
    BY DEF EncoladoInit
  <1>2. \A j \in Ids : jobs[j].estado = "ausente"
    BY DEF EncoladoInit, TablaInit, SinFila
  <1>3. \A w \in Consumidores : toma[w] = NoToma /\ ~Devolveria(w)
    BY DEF EncoladoInit, NoToma, Devolveria
  <1>4. EncoladoTypeOK
    <2>1. SinFila \in Fila
      BY TablaAssumption DEF SinFila, Fila, Estados
    <2>2. NoPide.carga \in Carga
      BY NoPideEs DEF Peticion
    <2>3. [fase |-> "libre", pide |-> NoPide, id |-> 0] \in Llamada
      BY NoPideEs DEF Llamada
    <2>4. NoToma \in Toma
      BY DEF NoToma, Toma
    <2> QED
      BY <2>1, <2>2, <2>3, <2>4 DEF EncoladoInit, TablaInit, EncoladoTypeOK, TablaTypeOK
  <1>5. TomaExiste /\ AlgunoAlDia
    BY <1>3, EncoladoAssumption DEF TomaExiste, AlgunoAlDia, NoToma
  <1>6. \A j \in Ids : ~Vivo(j)
    BY <1>2, <1>3 DEF Vivo, Activos
  <1>7. Cardinality({}) = 0 /\ 0 + 0 <= TopeClave /\ 0 + 0 <= TopeCuota
    <2>1. /\ Cardinality(Solicitantes) + Cardinality(Consumidores) - 1 >= 0
      BY Tamanos
    <2>2. MaxActivos >= 1
      BY EncoladoAssumption
    <2> QED
      BY <2>1, <2>2, Tamanos, FS_EmptySet DEF TopeClave, TopeCuota
  <1>8. VivosAcotados
    <2>1. ASSUME NEW p \in Peticion
          PROVE  VivosDeClave(p) = {} /\ Llamando({"cuota", "insertar"}, p) = {}
      BY <1>1, <1>6 DEF VivosDeClave, Llamando
    <2> QED
      BY <1>7, <2>1 DEF VivosAcotados
  <1>9. CuotaDeVivos
    <2>1. ASSUME NEW t \in TiposConCuota, NEW o \in Orgs
          PROVE  VivosDe(t, o) = {} /\ Insertando(t, o) = {}
      BY <1>1, <1>6 DEF VivosDe, Insertando
    <2> QED
      BY <1>7, <2>1 DEF CuotaDeVivos
  <1>10. DevuelveLoSuyo
    BY <1>1 DEF DevuelveLoSuyo
  <1> QED
    BY <1>4, <1>5, <1>8, <1>9, <1>10 DEF EncoladoInv

LEMMA EncoladoPaso == EncoladoInv /\ [EncoladoNext]_encoladoVars => EncoladoInv'
  <1> SUFFICES ASSUME EncoladoInv, [EncoladoNext]_encoladoVars PROVE EncoladoInv'
    OBVIOUS
  <1>1. EncoladoTypeOK' /\ TomaExiste' /\ AlgunoAlDia'
    BY TipoPaso DEF EncoladoInv
  <1>2. VivosAcotados'
    BY DuplicadosPaso DEF VivosAcotados, TopeClave
  <1>3. CuotaDeVivos'
    BY CuotaPaso DEF CuotaDeVivos, TopeCuota
  <1>4. DevuelveLoSuyo'
    BY DevuelvePaso
  <1> QED
    BY <1>1, <1>2, <1>3, <1>4 DEF EncoladoInv

(* They hold always. *)
THEOREM EncoladoSiempre == EncoladoSpec => []EncoladoInv
  BY EncoladoInicio, EncoladoPaso, PTL DEF EncoladoSpec

(* However the callers of enqueue() interleave, and however late consumers *)
(* close by id what they claimed, the active jobs of a key and the calls   *)
(* about to add one never exceed the callers plus the consumers but one.   *)
THEOREM DuplicadosSiempre == EncoladoSpec => []DuplicadosAcotados
  <1>1. EncoladoInv => DuplicadosAcotados
    <2>1. ASSUME EncoladoInv, NEW p \in Peticion, p.carga.clave # SinClave
          PROVE  Cardinality(Equivalentes(p)) + Cardinality(Llamando({"cuota", "insertar"}, p))
                   <= Cardinality(Solicitantes) + Cardinality(Consumidores) - 1
      <3> DEFINE B == Equivalentes(p)
                 E == VivosDeClave(p)
                 L == Llamando({"cuota", "insertar"}, p)
      <3>1. /\ IsFiniteSet(E) /\ IsFiniteSet(L)
            /\ Cardinality(E) + Cardinality(L) <= TopeClave
        BY <2>1, Finitos DEF EncoladoInv, VivosAcotados
      <3>2. B \subseteq E
        BY DEF Equivalentes, VivosDeClave, Vivo
      <3> HIDE DEF B, E, L
      <3>3. Cardinality(B) <= Cardinality(E) /\ IsFiniteSet(B)
        BY <3>1, <3>2, FS_Subset
      <3>4. Cardinality(B) \in Nat /\ Cardinality(E) \in Nat /\ Cardinality(L) \in Nat
        BY <3>1, <3>3, FS_CardinalityType
      <3>5. Cardinality(B) + Cardinality(L)
              <= Cardinality(Solicitantes) + Cardinality(Consumidores) - 1
        BY <3>1, <3>3, <3>4, Tamanos DEF TopeClave
      <3> QED
        BY <3>5 DEF B, L
    <2> QED
      BY <2>1 DEF DuplicadosAcotados
  <1> QED
    BY <1>1, EncoladoSiempre, PTL

(* The quota, counted in one transaction and spent in another, is overrun  *)
(* by one job per caller but one and one per consumer but one, at the most. *)
THEOREM CuotaSiempre == EncoladoSpec => []CuotaConCarrera
  <1>1. EncoladoInv => CuotaConCarrera
    <2>1. ASSUME EncoladoInv, NEW t \in TiposConCuota, NEW o \in Orgs
          PROVE  Cardinality(ActivosDe(t, o)) + Cardinality(Insertando(t, o)) <= TopeCuota
      <3> DEFINE B == ActivosDe(t, o)
                 A == VivosDe(t, o)
                 L == Insertando(t, o)
      <3>1. /\ IsFiniteSet(A) /\ IsFiniteSet(L)
            /\ Cardinality(A) + Cardinality(L) <= TopeCuota
        BY <2>1, Finitos DEF EncoladoInv, CuotaDeVivos
      <3>2. B \subseteq A
        BY DEF ActivosDe, VivosDe, Vivo
      <3> HIDE DEF B, A, L
      <3>3. Cardinality(B) <= Cardinality(A) /\ IsFiniteSet(B)
        BY <3>1, <3>2, FS_Subset
      <3>4. Cardinality(B) \in Nat /\ Cardinality(A) \in Nat /\ Cardinality(L) \in Nat
        BY <3>1, <3>3, FS_CardinalityType
      <3>5. Cardinality(B) + Cardinality(L) <= TopeCuota
        BY <3>1, <3>3, <3>4, Tamanos
      <3> QED
        BY <3>5 DEF B, L
    <2> QED
      BY <2>1 DEF CuotaConCarrera, Insertando, TopeCuota
  <1> QED
    BY <1>1, EncoladoSiempre, PTL

(* The id enqueue() returned is, for as long as the caller holds it, a job *)
(* of its own organization, type and key.                                  *)
THEOREM DevuelveSiempre == EncoladoSpec => []DevuelveLoSuyo
  <1>1. EncoladoInv => DevuelveLoSuyo
    BY DEF EncoladoInv
  <1> QED
    BY <1>1, EncoladoSiempre, PTL
=============================================================================
